---------------------------- MODULE Spec2Model ----------------------------
(***************************************************************************)
(* A model of the email classifier: the relationship analysis              *)
(* (EmailHistoryChecker), the label decision (OpenAIClassifier) and the    *)
(* orchestrator (EmailClassifier) on top of the mailbox client             *)
(* (GmailClient).                                                          *)
(*                                                                         *)
(* JavaScript values are modelled as follows.  A string is a TLA+ string.  *)
(* A value that may be absent (undefined or null) is a sequence of length  *)
(* at most one: << >> is undefined/null, <<v>> is the value v.             *)
(***************************************************************************)
EXTENDS Integers, Sequences, FiniteSets, TLC

(***************************************************************************)
(* Strings                                                                 *)
(***************************************************************************)
UpperCase == "ABCDEFGHIJKLMNOPQRSTUVWXYZ"
LowerCase == "abcdefghijklmnopqrstuvwxyz"

CharAt(s, i) == SubSeq(s, i, i)

\* String.prototype.toLowerCase on one character
LowerMap ==
  [ c \in { CharAt(UpperCase, k) : k \in 1..Len(UpperCase) } |->
      CharAt(LowerCase, CHOOSE k \in 1..Len(UpperCase) : CharAt(UpperCase, k) = c) ]

LowerChar(c) == IF c \in DOMAIN LowerMap THEN LowerMap[c] ELSE c

RECURSIVE toLowerCase(_)
toLowerCase(s) ==
  IF Len(s) = 0 THEN ""
  ELSE LowerChar(CharAt(s, 1)) \o toLowerCase(SubSeq(s, 2, Len(s)))

\* String.prototype.includes: substring containment
includes(text, keyword) ==
  \E i \in 1..(Len(text) - Len(keyword) + 1) :
     SubSeq(text, i, i + Len(keyword) - 1) = keyword

\* String.prototype.indexOf / lastIndexOf of a one-character string (0: none)
indexOfChar(s, c) ==
  IF \E i \in 1..Len(s) : CharAt(s, i) = c
    THEN CHOOSE i \in 1..Len(s) :
           CharAt(s, i) = c /\ \A j \in 1..(i - 1) : CharAt(s, j) # c
    ELSE 0

lastIndexOfChar(s, c) ==
  IF \E i \in 1..Len(s) : CharAt(s, i) = c
    THEN CHOOSE i \in 1..Len(s) :
           CharAt(s, i) = c /\ \A j \in (i + 1)..Len(s) : CharAt(s, j) # c
    ELSE 0

\* Array.prototype.some(keyword => text.includes(keyword))
someIncluded(keywords, text) ==
  \E k \in 1..Len(keywords) : includes(text, keywords[k])

(***************************************************************************)
(* Optional values                                                         *)
(***************************************************************************)
Undefined == << >>
Some(v) == <<v>>
IsDefined(m) == Len(m) = 1
\* !!x for an optional string: undefined, null and "" are falsy
Truthy(m) == Len(m) = 1 /\ m[1] # ""
\* the same for an optional number
TruthyNumber(m) == Len(m) = 1 /\ m[1] # 0
\* a > b in JavaScript for optional numbers: false when either is undefined
greaterThan(a, b) == Len(a) = 1 /\ Len(b) = 1 /\ a[1] > b[1]
\* obj[name] of an object that may lack the property
field(obj, name) == IF name \in DOMAIN obj THEN << obj[name] >> ELSE << >>

(***************************************************************************)
(* CONFIG.LABELS, in declaration order (Object.values order)               *)
(***************************************************************************)
TO_RESPOND == "Label_19"
FYI == "Label_18"
COMMENT == "Label_20"
NOTIFICATION == "Label_17"
MEETING_UPDATE == "INBOX"
MARKETING == "Label_15"
TICKETS == "Label_10"
RECEIPTS == "Label_2"

LabelIds == << TO_RESPOND, FYI, COMMENT, NOTIFICATION, MEETING_UPDATE,
               MARKETING, TICKETS, RECEIPTS >>

LabelIdSet == { LabelIds[i] : i \in 1..Len(LabelIds) }

\* OpenAIClassifier.getLabelName
getLabelName(labelId) ==
  CASE labelId = Some(TO_RESPOND) -> "To Respond"
    [] labelId = Some(FYI) -> "FYI"
    [] labelId = Some(COMMENT) -> "Comment"
    [] labelId = Some(NOTIFICATION) -> "Notification"
    [] labelId = Some(MEETING_UPDATE) -> "Meeting Update"
    [] labelId = Some(MARKETING) -> "Marketing"
    [] labelId = Some(TICKETS) -> "Tickets"
    [] labelId = Some(RECEIPTS) -> "Receipts"
    [] OTHER -> "Unknown"

(***************************************************************************)
(* The keyword tests of the fallback classification                        *)
(***************************************************************************)
meetingKeywords ==
  << "accepted:", "declined:", "invitation", "meeting", "calendar",
     "cancelled:", "updated invitation" >>

commentKeywords ==
  << "new comment", "comment on", "feedback on", "review requested" >>

promotionalKeywords ==
  << "sale", "discount", "offer", "deal", "promotion", "marketing",
     "advertisement" >>

notificationKeywords ==
  << "important update", "service notification", "policy change",
     "dpa update", "security alert" >>

ticketKeywords ==
  << "booking confirmation", "flight", "boarding pass", "check-in",
     "travel itinerary", "train", "bus", "ferry", "airline", "departure",
     "arrival", "ticket", "reservation", "booking", "travel", "journey",
     "trip" >>

receiptKeywords ==
  << "order confirmation", "receipt", "invoice", "payment", "purchase",
     "shipped", "delivered", "order", "transaction", "billing",
     "your order", "payment confirmation", "thank you for your order",
     "delivery confirmation", "shipping notification" >>

\* (email.subject + ' ' + email.text).toLowerCase()
subjectAndText(email) == toLowerCase(email.subject \o " " \o email.text)

containsMeetingKeywords(subject) ==
  \E k \in 1..Len(meetingKeywords) :
     includes(toLowerCase(subject), toLowerCase(meetingKeywords[k]))

containsCommentKeywords(subject) ==
  \E k \in 1..Len(commentKeywords) :
     includes(toLowerCase(subject), toLowerCase(commentKeywords[k]))

appearsPromotional(email) ==
  \/ someIncluded(promotionalKeywords, subjectAndText(email))
  \/ "CATEGORY_PROMOTIONS" \in email.labelIds
  \/ Truthy(email.headers["list-unsubscribe"])

\* a variant that ignores the auto-submitted header
appearsNotification_WithoutAutoSubmitted(email, domainAnalysis) ==
  \/ someIncluded(notificationKeywords, subjectAndText(email))
  \/ "CATEGORY_UPDATES" \in email.labelIds
  \/ domainAnalysis.isNoReply

appearsNotification(email, domainAnalysis) ==
  \/ someIncluded(notificationKeywords, subjectAndText(email))
  \/ "CATEGORY_UPDATES" \in email.labelIds
  \/ domainAnalysis.isNoReply
  \/ Truthy(email.headers["auto-submitted"])

\* a variant that is content with one question mark
containsQuestionMarks_One(text) ==
  Cardinality({ i \in 1..Len(text) : CharAt(text, i) = "?" }) >= 1

\* (text.match(/\?/g) || []).length >= 2
containsQuestionMarks(text) ==
  Cardinality({ i \in 1..Len(text) : CharAt(text, i) = "?" }) >= 2

appearsTicket(email) == someIncluded(ticketKeywords, subjectAndText(email))

appearsReceipt(email) == someIncluded(receiptKeywords, subjectAndText(email))

\* OpenAIClassifier.fallbackClassification: the label and the reasoning of
\* the first branch of the if / else-if chain whose condition holds
\* a slip: the receipt test is made before the ticket test
fallbackRule_ReceiptFirst(email, relationshipAnalysis) ==
  IF appearsReceipt(email)
    THEN << RECEIPTS, "Appears to be purchase/receipt related" >>
  ELSE IF appearsTicket(email)
    THEN << TICKETS, "Appears to be travel/ticket related" >>
  ELSE IF containsMeetingKeywords(email.subject)
    THEN << MEETING_UPDATE, "Subject contains meeting-related keywords" >>
  ELSE IF containsCommentKeywords(email.subject)
    THEN << COMMENT, "Subject indicates comment/feedback" >>
  ELSE IF ~relationshipAnalysis.history.hasHistory /\ appearsPromotional(email)
    THEN << MARKETING, "No history and appears promotional" >>
  ELSE IF appearsNotification(email, relationshipAnalysis.domain)
    THEN << NOTIFICATION, "Appears to be service notification" >>
  ELSE IF relationshipAnalysis.thread.isReply \/ containsQuestionMarks(email.text)
    THEN << TO_RESPOND, "Part of conversation thread or contains questions" >>
  ELSE << FYI, "Fallback classification" >>

\* a variant that tries the comment rule after the notification rule
fallbackRule_CommentAfterNotification(email, relationshipAnalysis) ==
  IF appearsTicket(email)
    THEN << TICKETS, "Appears to be travel/ticket related" >>
  ELSE IF appearsReceipt(email)
    THEN << RECEIPTS, "Appears to be purchase/receipt related" >>
  ELSE IF containsMeetingKeywords(email.subject)
    THEN << MEETING_UPDATE, "Subject contains meeting-related keywords" >>
  ELSE IF ~relationshipAnalysis.history.hasHistory /\ appearsPromotional(email)
    THEN << MARKETING, "No history and appears promotional" >>
  ELSE IF appearsNotification(email, relationshipAnalysis.domain)
    THEN << NOTIFICATION, "Appears to be service notification" >>
  ELSE IF containsCommentKeywords(email.subject)
    THEN << COMMENT, "Subject indicates comment/feedback" >>
  ELSE IF relationshipAnalysis.thread.isReply \/ containsQuestionMarks(email.text)
    THEN << TO_RESPOND, "Part of conversation thread or contains questions" >>
  ELSE << FYI, "Fallback classification" >>

\* a variant whose marketing rule does not ask for the history
fallbackRule_MarketingDespiteHistory(email, relationshipAnalysis) ==
  IF appearsTicket(email)
    THEN << TICKETS, "Appears to be travel/ticket related" >>
  ELSE IF appearsReceipt(email)
    THEN << RECEIPTS, "Appears to be purchase/receipt related" >>
  ELSE IF containsMeetingKeywords(email.subject)
    THEN << MEETING_UPDATE, "Subject contains meeting-related keywords" >>
  ELSE IF containsCommentKeywords(email.subject)
    THEN << COMMENT, "Subject indicates comment/feedback" >>
  ELSE IF appearsPromotional(email)
    THEN << MARKETING, "No history and appears promotional" >>
  ELSE IF appearsNotification(email, relationshipAnalysis.domain)
    THEN << NOTIFICATION, "Appears to be service notification" >>
  ELSE IF relationshipAnalysis.thread.isReply \/ containsQuestionMarks(email.text)
    THEN << TO_RESPOND, "Part of conversation thread or contains questions" >>
  ELSE << FYI, "Fallback classification" >>

fallbackRule(email, relationshipAnalysis) ==
  IF appearsTicket(email)
    THEN << TICKETS, "Appears to be travel/ticket related" >>
  ELSE IF appearsReceipt(email)
    THEN << RECEIPTS, "Appears to be purchase/receipt related" >>
  ELSE IF containsMeetingKeywords(email.subject)
    THEN << MEETING_UPDATE, "Subject contains meeting-related keywords" >>
  ELSE IF containsCommentKeywords(email.subject)
    THEN << COMMENT, "Subject indicates comment/feedback" >>
  ELSE IF ~relationshipAnalysis.history.hasHistory /\ appearsPromotional(email)
    THEN << MARKETING, "No history and appears promotional" >>
  ELSE IF appearsNotification(email, relationshipAnalysis.domain)
    THEN << NOTIFICATION, "Appears to be service notification" >>
  ELSE IF relationshipAnalysis.thread.isReply \/ containsQuestionMarks(email.text)
    THEN << TO_RESPOND, "Part of conversation thread or contains questions" >>
  ELSE << FYI, "Fallback classification" >>

\* a slip: the confidence of the parsed path is used
fallbackClassification_Medium(email, relationshipAnalysis) ==
  LET rule == fallbackRule(email, relationshipAnalysis) IN
  [ labelId    |-> Some(rule[1]),
    labelName  |-> getLabelName(Some(rule[1])),
    confidence |-> "MEDIUM",
    reasoning  |-> "Fallback: " \o rule[2] ]

fallbackClassification(email, relationshipAnalysis) ==
  LET rule == fallbackRule(email, relationshipAnalysis) IN
  [ labelId    |-> Some(rule[1]),
    labelName  |-> getLabelName(Some(rule[1])),
    confidence |-> "LOW",
    reasoning  |-> "Fallback: " \o rule[2] ]

(***************************************************************************)
(* JSON.parse, restricted to the texts the model feeds it: an object whose *)
(* keys are strings and whose values are strings or null, with optional    *)
(* white space.  Any other text over the alphabet of ResponseTexts (which  *)
(* has no backslash, digit-initial value, array or nested object in a      *)
(* value position) is a syntax error, as it is for JSON.parse.  A parsed   *)
(* object is a function from its keys to optional strings (null is << >>). *)
(***************************************************************************)
IsWhitespace(c) == c \in { " ", "\n", "\t", "\r" }

RECURSIVE skipWhitespace(_, _)
skipWhitespace(s, i) ==
  IF i <= Len(s) /\ IsWhitespace(CharAt(s, i)) THEN skipWhitespace(s, i + 1) ELSE i

ParseFail == [ ok |-> FALSE, val |-> Undefined, next |-> 0 ]

\* the index of the quote closing a string literal whose body starts at j,
\* 0 when the literal is not closed or holds a character JSON forbids
RECURSIVE closingQuote(_, _)
closingQuote(s, j) ==
  IF j > Len(s) THEN 0
  ELSE IF CharAt(s, j) = "\"" THEN j
  ELSE IF CharAt(s, j) \in { "\\", "\n", "\t", "\r" } THEN 0
  ELSE closingQuote(s, j + 1)

parseJsonString(s, i) ==
  IF i <= Len(s) /\ CharAt(s, i) = "\""
    THEN LET j == closingQuote(s, i + 1) IN
         IF j = 0 THEN ParseFail
         ELSE [ ok |-> TRUE, val |-> Some(SubSeq(s, i + 1, j - 1)), next |-> j + 1 ]
    ELSE ParseFail

parseJsonValue(s, i) ==
  IF i + 3 <= Len(s) /\ SubSeq(s, i, i + 3) = "null"
    THEN [ ok |-> TRUE, val |-> Undefined, next |-> i + 4 ]
    ELSE parseJsonString(s, i)

\* obj with property key set to val (a repeated key keeps the last value)
withProperty(obj, key, val) ==
  [ k \in (DOMAIN obj) \cup { key } |-> IF k = key THEN val ELSE obj[k] ]

\* obj.name
Prop(obj, name) == IF name \in DOMAIN obj THEN obj[name] ELSE Undefined

\* the members of an object from index i on, up to and including its "}"
RECURSIVE parseJsonMembers(_, _, _)
parseJsonMembers(s, i, obj) ==
  LET key == parseJsonString(s, i) IN
  IF ~key.ok THEN ParseFail
  ELSE
    LET colon == skipWhitespace(s, key.next) IN
    IF ~(colon <= Len(s) /\ CharAt(s, colon) = ":") THEN ParseFail
    ELSE
      LET value == parseJsonValue(s, skipWhitespace(s, colon + 1)) IN
      IF ~value.ok THEN ParseFail
      ELSE
        LET obj2 == withProperty(obj, key.val[1], value.val)
            after == skipWhitespace(s, value.next)
        IN
        IF after > Len(s) THEN ParseFail
        ELSE IF CharAt(s, after) = ","
          THEN parseJsonMembers(s, skipWhitespace(s, after + 1), obj2)
        ELSE IF CharAt(s, after) = "}"
          THEN [ ok |-> TRUE, val |-> obj2, next |-> after + 1 ]
        ELSE ParseFail

\* JSON.parse(s): ok is FALSE where JSON.parse throws a SyntaxError
JSONparse(s) ==
  LET open == skipWhitespace(s, 1) IN
  IF ~(open <= Len(s) /\ CharAt(s, open) = "{") THEN ParseFail
  ELSE
    LET first == skipWhitespace(s, open + 1)
        body  == IF first <= Len(s) /\ CharAt(s, first) = "}"
                   THEN [ ok |-> TRUE, val |-> << >>, next |-> first + 1 ]
                   ELSE parseJsonMembers(s, first, << >>)
    IN
    IF body.ok /\ skipWhitespace(s, body.next) = Len(s) + 1 THEN body ELSE ParseFail

\* response.match(/\{[\s\S]*\}/): from the first "{" to the last "}"
\* (the match is greedy); << >> when there is no match
jsonMatch(response) ==
  LET first == indexOfChar(response, "{")
      last  == lastIndexOfChar(response, "}")
  IN
  IF first >= 1 /\ last > first THEN Some(SubSeq(response, first, last)) ELSE Undefined

(***************************************************************************)
(* OpenAIClassifier                                                        *)
(***************************************************************************)
\* the catch branch of parseClassificationResponse
parseErrorDefault ==
  [ labelId    |-> Some(FYI),
    labelName  |-> "FYI",
    confidence |-> "LOW",
    reasoning  |-> "Parse error - defaulted to FYI" ]

\* a || b on an optional string a and a string b
OrElse(a, b) == IF Truthy(a) THEN a[1] ELSE b

\* the loop over Object.values(CONFIG.LABELS): the first id, in declaration
\* order, that the response includes; 0 when it includes none
firstLabelIncluded(response) ==
  IF \E i \in 1..Len(LabelIds) : includes(response, LabelIds[i])
    THEN CHOOSE i \in 1..Len(LabelIds) :
           /\ includes(response, LabelIds[i])
           /\ \A j \in 1..(i - 1) : ~includes(response, LabelIds[j])
    ELSE 0

\* a variant that answers a label id outside CONFIG.LABELS with the default
parseClassificationResponse_ChecksMembership(content) ==
  IF ~IsDefined(content) THEN parseErrorDefault
  ELSE
    LET matched == jsonMatch(content[1]) IN
    IF IsDefined(matched)
      THEN LET parsed == JSONparse(matched[1]) IN
           IF ~parsed.ok THEN parseErrorDefault
           ELSE IF Prop(parsed.val, "labelId") \notin { Some(l) : l \in LabelIdSet }
             THEN parseErrorDefault
             ELSE [ labelId    |-> Prop(parsed.val, "labelId"),
                    labelName  |-> OrElse(Prop(parsed.val, "labelName"),
                                          getLabelName(Prop(parsed.val, "labelId"))),
                    confidence |-> OrElse(Prop(parsed.val, "confidence"), "MEDIUM"),
                    reasoning  |-> OrElse(Prop(parsed.val, "reasoning"),
                                          "No reasoning provided") ]
      ELSE LET i == firstLabelIncluded(content[1]) IN
           IF i # 0
             THEN [ labelId    |-> Some(LabelIds[i]),
                    labelName  |-> getLabelName(Some(LabelIds[i])),
                    confidence |-> "MEDIUM",
                    reasoning  |-> "Label ID found in response" ]
             ELSE parseErrorDefault

\* OpenAIClassifier.parseClassificationResponse; content is the optional
\* string response.choices[0].message.content
parseClassificationResponse(content) ==
  IF ~IsDefined(content) THEN parseErrorDefault      \* null.match throws
  ELSE
    LET response == content[1]
        matched  == jsonMatch(response)
    IN
    IF IsDefined(matched)
      THEN LET parsed == JSONparse(matched[1]) IN
           IF ~parsed.ok THEN parseErrorDefault      \* JSON.parse throws
           ELSE
             [ labelId    |-> Prop(parsed.val, "labelId"),
               labelName  |-> OrElse(Prop(parsed.val, "labelName"),
                                     getLabelName(Prop(parsed.val, "labelId"))),
               confidence |-> OrElse(Prop(parsed.val, "confidence"), "MEDIUM"),
               reasoning  |-> OrElse(Prop(parsed.val, "reasoning"),
                                     "No reasoning provided") ]
      ELSE LET i == firstLabelIncluded(response) IN
           IF i # 0
             THEN [ labelId    |-> Some(LabelIds[i]),
                    labelName  |-> getLabelName(Some(LabelIds[i])),
                    confidence |-> "MEDIUM",
                    reasoning  |-> "Label ID found in response" ]
             ELSE parseErrorDefault                  \* the throw is caught here

\* What the chat completion request does: it throws, or it returns a
\* response whose content is an optional string.
ModelThrows == [ throws |-> TRUE, content |-> Undefined ]
ModelReturns(content) == [ throws |-> FALSE, content |-> content ]

\* OpenAIClassifier.classifyEmail, given what the request does
\* a classification with the rawResponse property set (undefined: absent)
withRawResponse(result, rawResponse) ==
  [ labelId    |-> result.labelId,
    labelName  |-> result.labelName,
    confidence |-> result.confidence,
    reasoning  |-> result.reasoning,
    rawResponse |-> rawResponse ]

\* a slip: the catch branch answers with the parse-error default
OpenAIClassifier_classifyEmail_DefaultOnThrow(email, relationshipAnalysis, outcome) ==
  IF outcome.throws
    THEN withRawResponse(parseErrorDefault, Undefined)
    ELSE withRawResponse(parseClassificationResponse(outcome.content),
                         outcome.content)

OpenAIClassifier_classifyEmail(email, relationshipAnalysis, outcome) ==
  IF outcome.throws
    THEN withRawResponse(fallbackClassification(email, relationshipAnalysis),
                         Undefined)
    ELSE withRawResponse(parseClassificationResponse(outcome.content),
                         outcome.content)

(***************************************************************************)
(* EmailHistoryChecker                                                     *)
(***************************************************************************)
\* the header keys parseEmailData keeps for classification
HeaderNames ==
  { "auto-submitted", "sender", "in-reply-to", "references",
    "list-unsubscribe", "precedence" }

\* Array.prototype.slice(0, 5)
sliceFirst5(list) == SubSeq(list, 1, IF Len(list) < 5 THEN Len(list) ELSE 5)

\* EmailHistoryChecker.generateHistorySummary
generateHistorySummary(hasHistory, receivedCount, sentCount) ==
  IF ~hasHistory
    THEN "No prior email history found - this appears to be a cold email"
    ELSE
      LET r == ToString(receivedCount) \o " email(s) received from this sender"
          t == ToString(sentCount) \o " email(s) sent to this sender"
      IN "Prior email history exists: " \o
           (IF receivedCount > 0 /\ sentCount > 0 THEN r \o ", " \o t
            ELSE IF receivedCount > 0 THEN r
            ELSE IF sentCount > 0 THEN t
            ELSE "")

\* a variant that counts only the received messages as history
historyFound_ReceivedOnly(receivedEmails, sentEmails) ==
  LET hasHistory == Len(receivedEmails) > 0 IN
  [ hasHistory     |-> hasHistory,
    receivedCount  |-> Len(receivedEmails),
    sentCount      |-> Len(sentEmails),
    receivedEmails |-> receivedEmails,
    sentEmails     |-> sentEmails,
    summary        |-> "",
    error          |-> << >> ]

\* EmailHistoryChecker.checkEmailHistory, the path on which both lookups
\* returned (receivedEmails and sentEmails are the lists they returned)
historyFound(receivedEmails, sentEmails) ==
  LET hasHistory == Len(receivedEmails) > 0 \/ Len(sentEmails) > 0 IN
  [ hasHistory     |-> hasHistory,
    receivedCount  |-> Len(receivedEmails),
    sentCount      |-> Len(sentEmails),
    receivedEmails |-> sliceFirst5(receivedEmails),
    sentEmails     |-> sliceFirst5(sentEmails),
    summary        |-> generateHistorySummary(hasHistory, Len(receivedEmails),
                                              Len(sentEmails)),
    error          |-> Undefined ]

\* EmailHistoryChecker.checkEmailHistory, the catch branch
historyError(message) ==
  [ hasHistory     |-> FALSE,
    receivedCount  |-> 0,
    sentCount      |-> 0,
    receivedEmails |-> << >>,
    sentEmails     |-> << >>,
    summary        |-> "Error checking history - treating as no history",
    error          |-> Some(message) ]

\* EmailHistoryChecker.generateThreadContext
generateThreadContext(isReply, isAutoSubmitted, hasUnsubscribe, isBulk) ==
  LET contexts ==
        (IF isReply THEN << "Part of ongoing conversation thread" >> ELSE << >>) \o
        (IF isAutoSubmitted THEN << "Auto-generated/system email" >> ELSE << >>) \o
        (IF hasUnsubscribe THEN << "Contains unsubscribe mechanism" >> ELSE << >>) \o
        (IF isBulk THEN << "Mass/bulk email" >> ELSE << >>)
  IN IF Len(contexts) > 0 THEN contexts ELSE << "Direct individual email" >>

\* a variant that compares the precedence without regard to case
analyzeThreadContext_BulkAnyCase(email) ==
  LET isReply == Truthy(email.headers["in-reply-to"])
                   \/ Truthy(email.headers["references"])
      isAutoSubmitted == Truthy(email.headers["auto-submitted"])
      hasUnsubscribe == Truthy(email.headers["list-unsubscribe"])
      isBulk == /\ IsDefined(email.headers["precedence"])
                /\ toLowerCase(email.headers["precedence"][1]) = "bulk"
  IN [ isReply         |-> isReply,
       isAutoSubmitted |-> isAutoSubmitted,
       hasUnsubscribe  |-> hasUnsubscribe,
       isBulk          |-> isBulk,
       threadId        |-> email.threadId,
       context         |-> generateThreadContext(isReply, isAutoSubmitted,
                                                 hasUnsubscribe, isBulk) ]

\* EmailHistoryChecker.analyzeThreadContext (context is kept as the list of
\* phrases that the code joins with ", ")
analyzeThreadContext(email) ==
  LET isReply == Truthy(email.headers["in-reply-to"])
                   \/ Truthy(email.headers["references"])
      isAutoSubmitted == Truthy(email.headers["auto-submitted"])
      hasUnsubscribe == Truthy(email.headers["list-unsubscribe"])
      isBulk == email.headers["precedence"] = Some("bulk")
  IN [ isReply         |-> isReply,
       isAutoSubmitted |-> isAutoSubmitted,
       hasUnsubscribe  |-> hasUnsubscribe,
       isBulk          |-> isBulk,
       threadId        |-> email.threadId,
       context         |-> generateThreadContext(isReply, isAutoSubmitted,
                                                 hasUnsubscribe, isBulk) ]

\* senderEmail.split('@')[0] and senderEmail.split('@')[1]
\* a variant that gives an empty local part to an address without "@"
splitAt0_EmptyWithoutAt(s) ==
  LET at == indexOfChar(s, "@") IN
  IF at = 0 THEN "" ELSE SubSeq(s, 1, at - 1)

splitAt0(s) ==
  LET at == indexOfChar(s, "@") IN
  IF at = 0 THEN s ELSE SubSeq(s, 1, at - 1)

splitAt1(s) ==
  LET at == indexOfChar(s, "@") IN
  IF at = 0 THEN Undefined
  ELSE LET rest == SubSeq(s, at + 1, Len(s))
           at2  == indexOfChar(rest, "@")
       IN Some(IF at2 = 0 THEN rest ELSE SubSeq(rest, 1, at2 - 1))

startsWith(s, prefix) ==
  Len(prefix) <= Len(s) /\ SubSeq(s, 1, Len(prefix)) = prefix

\* /^(no-?reply|noreply|do-?not-?reply)/i
noreplyPattern(s) ==
  \E p \in { "no-reply", "noreply", "do-not-reply", "donot-reply",
             "do-notreply", "donotreply" } : startsWith(toLowerCase(s), p)

\* /^(notification|alert|system|admin|support)/i
automatedPattern(s) ==
  \E p \in { "notification", "alert", "system", "admin", "support" } :
     startsWith(toLowerCase(s), p)

\* /^(marketing|promo|newsletter|info)/i
marketingPattern(s) ==
  \E p \in { "marketing", "promo", "newsletter", "info" } :
     startsWith(toLowerCase(s), p)

\* EmailHistoryChecker.analyzeSenderDomain
analyzeSenderDomain(senderEmail) ==
  LET part1     == splitAt1(senderEmail)
      localPart == toLowerCase(splitAt0(senderEmail))
  IN [ domain      |-> IF IsDefined(part1) THEN Some(toLowerCase(part1[1]))
                       ELSE Undefined,
       isNoReply   |-> noreplyPattern(localPart),
       isAutomated |-> automatedPattern(localPart),
       isMarketing |-> marketingPattern(localPart),
       localPart   |-> localPart ]

\* a variant whose bulk hint asks for the unsubscribe header only
generateClassificationHints_BulkOnUnsubscribe(emailHistory, threadContext, domainAnalysis) ==
  (IF ~emailHistory.hasHistory
     THEN << "COLD_EMAIL: No prior communication history" >> \o
          (IF domainAnalysis.isMarketing
             THEN << "LIKELY_MARKETING: Cold email from marketing-type address" >>
             ELSE << >>)
     ELSE << "KNOWN_CONTACT: Prior email history exists" >> \o
          (IF threadContext.isReply
             THEN << "ONGOING_CONVERSATION: Part of active thread" >>
             ELSE << >>)) \o
  (IF threadContext.isAutoSubmitted
     THEN << "AUTOMATED: System-generated email" >> ELSE << >>) \o
  (IF threadContext.hasUnsubscribe
     THEN << "BULK_EMAIL: Mass mailing with unsubscribe" >> ELSE << >>) \o
  (IF domainAnalysis.isNoReply
     THEN << "NOTIFICATION_TYPE: No-reply address suggests notification" >>
     ELSE << >>)

\* a variant that gives the conversation hint to every reply
generateClassificationHints_OngoingOnAnyReply(emailHistory, threadContext, domainAnalysis) ==
  (IF ~emailHistory.hasHistory
     THEN << "COLD_EMAIL: No prior communication history" >> \o
          (IF domainAnalysis.isMarketing
             THEN << "LIKELY_MARKETING: Cold email from marketing-type address" >>
             ELSE << >>)
     ELSE << "KNOWN_CONTACT: Prior email history exists" >>) \o
  (IF threadContext.isReply
     THEN << "ONGOING_CONVERSATION: Part of active thread" >> ELSE << >>) \o
  (IF threadContext.isAutoSubmitted
     THEN << "AUTOMATED: System-generated email" >> ELSE << >>) \o
  (IF threadContext.hasUnsubscribe /\ threadContext.isBulk
     THEN << "BULK_EMAIL: Mass mailing with unsubscribe" >> ELSE << >>) \o
  (IF domainAnalysis.isNoReply
     THEN << "NOTIFICATION_TYPE: No-reply address suggests notification" >>
     ELSE << >>)

\* EmailHistoryChecker.generateClassificationHints
generateClassificationHints(emailHistory, threadContext, domainAnalysis) ==
  (IF ~emailHistory.hasHistory
     THEN << "COLD_EMAIL: No prior communication history" >> \o
          (IF domainAnalysis.isMarketing
             THEN << "LIKELY_MARKETING: Cold email from marketing-type address" >>
             ELSE << >>)
     ELSE << "KNOWN_CONTACT: Prior email history exists" >> \o
          (IF threadContext.isReply
             THEN << "ONGOING_CONVERSATION: Part of active thread" >>
             ELSE << >>)) \o
  (IF threadContext.isAutoSubmitted
     THEN << "AUTOMATED: System-generated email" >> ELSE << >>) \o
  (IF threadContext.hasUnsubscribe /\ threadContext.isBulk
     THEN << "BULK_EMAIL: Mass mailing with unsubscribe" >> ELSE << >>) \o
  (IF domainAnalysis.isNoReply
     THEN << "NOTIFICATION_TYPE: No-reply address suggests notification" >>
     ELSE << >>)

\* EmailHistoryChecker.performRelationshipAnalysis, given the result of
\* checkEmailHistory (the timestamp of the email summary is left out)
performRelationshipAnalysis(email, emailHistory) ==
  LET threadContext  == analyzeThreadContext(email)
      domainAnalysis == analyzeSenderDomain(email.from.address)
  IN [ email   |-> [ id |-> email.id, subject |-> email.subject,
                     from |-> email.from ],
       history |-> emailHistory,
       thread  |-> threadContext,
       domain  |-> domainAnalysis,
       classification_hints |->
         generateClassificationHints(emailHistory, threadContext, domainAnalysis) ]

(***************************************************************************)
(* GmailClient: parsing a message of the mailbox                           *)
(*                                                                         *)
(* A raw message is what users.messages.get returns: id, threadId,         *)
(* historyId, labelIds, the header list (name, value) of its payload and   *)
(* the decoded text of its body.  The fields of the parsed email that only *)
(* the prompt reads (to, cc, snippet, html) are left out.                  *)
(***************************************************************************)
\* String.prototype.trim
RECURSIVE trimStart(_)
trimStart(s) ==
  IF Len(s) > 0 /\ IsWhitespace(CharAt(s, 1)) THEN trimStart(SubSeq(s, 2, Len(s))) ELSE s

RECURSIVE trimEnd(_)
trimEnd(s) ==
  IF Len(s) > 0 /\ IsWhitespace(CharAt(s, Len(s)))
    THEN trimEnd(SubSeq(s, 1, Len(s) - 1)) ELSE s

trim(s) == trimEnd(trimStart(s))

\* GmailClient.extractHeaders: names lower-cased, a repeated name keeps
\* the last value
RECURSIVE extractHeaders(_)
extractHeaders(headers) ==
  IF Len(headers) = 0 THEN << >>
  ELSE LET last == headers[Len(headers)] IN
       withProperty(extractHeaders(SubSeq(headers, 1, Len(headers) - 1)),
                    toLowerCase(last[1]), Some(last[2]))

\* GmailClient.parseEmailAddress: addressString.match(/^(.*?)\s*<(.+?)>$/),
\* or [null, addressString, addressString] when there is no match.  The
\* match takes the first "<" that leaves at least one character before the
\* final ">".
parseEmailAddress(addressString) ==
  LET n    == Len(addressString)
      open == indexOfChar(addressString, "<")
  IN
  IF n >= 3 /\ CharAt(addressString, n) = ">" /\ open >= 1 /\ open <= n - 2
    THEN LET g1 == trimEnd(SubSeq(addressString, 1, open - 1))
             g2 == SubSeq(addressString, open + 1, n - 1)
         IN [ name    |-> trim(g1),
              address |-> IF trim(g2) # "" THEN trim(g2) ELSE trim(addressString) ]
    ELSE [ name |-> trim(addressString), address |-> trim(addressString) ]

\* GmailClient.parseEmailData: historyId is not among the fields it copies
parseEmailData(emailData) ==
  LET headers == extractHeaders(emailData.headers) IN
  [ id       |-> emailData.id,
    threadId |-> emailData.threadId,
    labelIds |-> emailData.labelIds,
    subject  |-> OrElse(Prop(headers, "subject"), ""),
    from     |-> parseEmailAddress(OrElse(Prop(headers, "from"), "")),
    headers  |-> [ h \in HeaderNames |-> Prop(headers, h) ],
    text     |-> emailData.text ]

(***************************************************************************)
(* State                                                                   *)
(***************************************************************************)
VARIABLES
  inbox,          \* the mailbox: raw messages in arrival order
  modified,       \* the users.messages.modify requests that succeeded
  answers,        \* the contents the model may answer with in this run
  priors,         \* the numbers of messages a history lookup may find in this run
  faults,         \* the errors users.messages.get may raise in this run
  lastHistoryId,  \* EmailClassifier.lastHistoryId (optional)
  delivered,      \* the number of push notifications delivered to the webhook
  task            \* the frame of every task: the program and the handlers

vars == << inbox, modified, answers, priors, faults, lastHistoryId, delivered, task >>

\* the number of webhook handlers that may be in progress at once
MaxHooks == 2
\* the number of prior messages a history lookup may find
MaxPrior == 1
\* GmailClient.getEmail(messageId, retries = 3)
Retries == 3

\* task 0 is the program started from the command line or by the server;
\* tasks 1..MaxHooks are invocations of the webhook handler
Tasks == 0..MaxHooks

\* the frame of a call of EmailClassifier.classifyEmail(messageId); lookups
\* records how the history lookups of the call ended, outcome what its chat
\* completion request did, labelCalls the addLabels requests it has issued
\* retries, attempt, error and waits belong to its getEmail: the parameter
\* retries, the number of the attempt in progress, the error caught last
\* and the delays in ms it has waited between attempts
NoCall ==
  [ pc |-> "none", messageId |-> "", retries |-> Retries, attempt |-> 0,
    error |-> Undefined, waits |-> << >>, email |-> Undefined,
    received |-> << >>, lookups |-> << >>, analysis |-> Undefined,
    outcome |-> Undefined, classification |-> Undefined, labelCalls |-> 0,
    result |-> Undefined ]

beginCall(messageId) ==
  [ NoCall EXCEPT !.pc = "getEmail", !.messageId = messageId, !.attempt = 1 ]

\* an error of the Gmail API: error.code and error.status, either may be
\* undefined
Fault(code, status) == [ code |-> code, status |-> status ]

\* the errors of a run that is not about them: a reset connection, and the
\* answer 404
UsualFaults ==
  { Fault(Some("ECONNRESET"), Undefined), Fault(Undefined, Some(404)) }

\* a variant that does not count the status 599
isNetworkError_Below599(error) ==
  \/ error.code \in { Some("ECONNRESET"), Some("ENOTFOUND"), Some("ETIMEDOUT") }
  \/ IsDefined(error.status) /\ error.status[1] >= 500 /\ error.status[1] < 599

\* GmailClient.getEmail: isNetworkError
isNetworkError(error) ==
  \/ error.code \in { Some("ECONNRESET"), Some("ENOTFOUND"), Some("ETIMEDOUT") }
  \/ IsDefined(error.status) /\ error.status[1] >= 500 /\ error.status[1] < 600

\* Math.pow(2, n)
RECURSIVE pow2(_)
pow2(n) == IF n = 0 THEN 1 ELSE 2 * pow2(n - 1)

\* Math.min(1000 * Math.pow(2, attempt - 1), 10000)
retryDelay(attempt) ==
  IF 1000 * pow2(attempt - 1) < 10000 THEN 1000 * pow2(attempt - 1) ELSE 10000

\* the frame of a task that runs nothing.  ids and i are the list a loop
\* iterates and the number of its items the loop has finished; results is
\* the array classifyEmails builds; emails is the list searchEmails gave;
\* cursor is the local lastHistoryId of startMonitoring, polls the number of
\* its iterations begun, delay the poll intervals it waits, lookup the way
\* its last searchEmails ended; historyId is the argument of
\* processHistoryChanges; call is the classifyEmail in progress; env is the
\* set of environment variables that are set, issues the list validateSetup
\* builds and returned the value it returns
IdleTask ==
  [ op |-> "idle", pc |-> "idle", ids |-> << >>, i |-> 0, results |-> << >>,
    emails |-> << >>, cursor |-> Undefined, polls |-> 0, delay |-> 0,
    lookup |-> "none", historyId |-> Undefined, call |-> NoCall,
    env |-> { }, issues |-> << >>, returned |-> Undefined ]

\* the list a history lookup returns, by the number of messages it found
PriorList(n) == [ i \in 1..n |-> i ]

\* the raw message with the given id, as a sequence of length 0 or 1
rawMessage(messageId) ==
  IF \E i \in 1..Len(inbox) : inbox[i].id = messageId
    THEN Some(inbox[CHOOSE i \in 1..Len(inbox) : inbox[i].id = messageId])
    ELSE Undefined

(***************************************************************************)
(* EmailClassifier.classifyEmail(messageId): one action per awaited call   *)
(***************************************************************************)
\* the catch branch of EmailClassifier.classifyEmail
failedResult(messageId, message) ==
  [ messageId |-> messageId, email |-> Undefined,
    relationshipAnalysis |-> Undefined, classification |-> Undefined,
    success |-> FALSE, error |-> Some(message) ]

\* the value EmailClassifier.classifyEmail returns after the label was applied
succeededResult(call) ==
  [ messageId |-> call.messageId,
    email |-> Some([ id |-> call.email[1].id, subject |-> call.email[1].subject,
                     from |-> call.email[1].from ]),
    relationshipAnalysis |-> call.analysis,
    classification |-> call.classification,
    success |-> TRUE, error |-> Undefined ]

\* GmailClient.getEmail: users.messages.get returns the message
GetEmailReturns(t) ==
  /\ task[t].call.pc = "getEmail"
  /\ IsDefined(rawMessage(task[t].call.messageId))
  /\ task' = [ task EXCEPT ![t].call.email =
                   Some(parseEmailData(rawMessage(task[t].call.messageId)[1])),
                 ![t].call.pc = "lookupFrom" ]
  /\ UNCHANGED << inbox, modified, answers, priors, faults, lastHistoryId, delivered >>

\* GmailClient.getEmail: a network error before the last attempt; the loop
\* waits and goes on to the next attempt
GetEmailRetries(t) ==
  /\ task[t].call.pc = "getEmail"
  /\ \E error \in faults :
       /\ isNetworkError(error) /\ task[t].call.attempt < task[t].call.retries
       /\ task' = [ task EXCEPT
                      ![t].call.error = Some(error),
                      ![t].call.waits = Append(@, retryDelay(task[t].call.attempt)),
                      ![t].call.attempt = @ + 1 ]
  /\ UNCHANGED << inbox, modified, answers, priors, faults, lastHistoryId, delivered >>

\* GmailClient.getEmail throws (an error that is no network error, or the
\* last attempt failed); EmailClassifier.classifyEmail catches it
GetEmailThrows(t) ==
  /\ task[t].call.pc = "getEmail"
  /\ \E error \in faults :
       /\ ~( isNetworkError(error) /\ task[t].call.attempt < task[t].call.retries )
       /\ task' = [ task EXCEPT
                      ![t].call.error = Some(error),
                      ![t].call.result =
                        Some(failedResult(task[t].call.messageId, "getEmail failed")),
                      ![t].call.pc = "return" ]
  /\ UNCHANGED << inbox, modified, answers, priors, faults, lastHistoryId, delivered >>

\* checkEmailHistory: getEmailsFromSender returned a list of n messages
LookupFromReturns(t, n) ==
  /\ task[t].call.pc = "lookupFrom"
  /\ task' = [ task EXCEPT ![t].call.received = PriorList(n),
                           ![t].call.lookups = << "returned" >>,
                           ![t].call.pc = "lookupTo" ]
  /\ UNCHANGED << inbox, modified, answers, priors, faults, lastHistoryId, delivered >>

\* checkEmailHistory: getEmailsToRecipient returned a list of n messages;
\* the rest of performRelationshipAnalysis runs without awaiting
LookupToReturns(t, n) ==
  /\ task[t].call.pc = "lookupTo"
  /\ task' = [ task EXCEPT ![t].call.analysis =
                   Some(performRelationshipAnalysis(task[t].call.email[1],
                          historyFound(task[t].call.received, PriorList(n)))),
                 ![t].call.lookups = << "returned", "returned" >>,
                 ![t].call.pc = "model" ]
  /\ UNCHANGED << inbox, modified, answers, priors, faults, lastHistoryId, delivered >>

\* a variant that keeps what the first lookup had returned
LookupThrows_KeepsReceived(t) ==
  /\ task[t].call.pc \in { "lookupFrom", "lookupTo" }
  /\ task' = [ task EXCEPT ![t].call.analysis =
                   Some(performRelationshipAnalysis(task[t].call.email[1],
                          historyFound(task[t].call.received, << >>))),
                 ![t].call.lookups = Append(@, "threw"),
                 ![t].call.pc = "model" ]
  /\ UNCHANGED << inbox, modified, answers, priors, faults, lastHistoryId, delivered >>

\* checkEmailHistory: one of the two lookups threw
LookupThrows(t) ==
  /\ task[t].call.pc \in { "lookupFrom", "lookupTo" }
  /\ task' = [ task EXCEPT ![t].call.analysis =
                   Some(performRelationshipAnalysis(task[t].call.email[1],
                          historyError("search failed"))),
                 ![t].call.lookups = Append(@, "threw"),
                 ![t].call.pc = "model" ]
  /\ UNCHANGED << inbox, modified, answers, priors, faults, lastHistoryId, delivered >>

\* OpenAIClassifier.classifyEmail: the chat completion request threw
ModelCallThrows(t) ==
  /\ task[t].call.pc = "model"
  /\ task' = [ task EXCEPT ![t].call.classification =
                   Some(OpenAIClassifier_classifyEmail(task[t].call.email[1],
                          task[t].call.analysis[1], ModelThrows)),
                 ![t].call.outcome = Some(ModelThrows),
                 ![t].call.pc = "addLabels" ]
  /\ UNCHANGED << inbox, modified, answers, priors, faults, lastHistoryId, delivered >>

\* OpenAIClassifier.classifyEmail: the chat completion request returned
ModelCallReturns(t, content) ==
  /\ task[t].call.pc = "model"
  /\ task' = [ task EXCEPT ![t].call.classification =
                   Some(OpenAIClassifier_classifyEmail(task[t].call.email[1],
                          task[t].call.analysis[1], ModelReturns(content))),
                 ![t].call.outcome = Some(ModelReturns(content)),
                 ![t].call.pc = "addLabels" ]
  /\ UNCHANGED << inbox, modified, answers, priors, faults, lastHistoryId, delivered >>

\* a variant that also marks the message as read
AddLabelsReturns_AlsoMarksRead(t) ==
  /\ task[t].call.pc = "addLabels"
  /\ modified' = Append(Append(modified,
                   [ id |-> task[t].call.messageId,
                     addLabelIds |-> << task[t].call.classification[1].labelId >> ]),
                   [ id |-> task[t].call.messageId,
                     addLabelIds |-> << Some("READ") >> ])
  /\ task' = [ task EXCEPT ![t].call.result = Some(succeededResult(task[t].call)),
                           ![t].call.labelCalls = @ + 1,
                           ![t].call.pc = "return" ]
  /\ UNCHANGED << inbox, answers, priors, faults, lastHistoryId, delivered >>

\* EmailClassifier.applyLabel: GmailClient.addLabels succeeded
AddLabelsReturns(t) ==
  /\ task[t].call.pc = "addLabels"
  /\ modified' = Append(modified,
                   [ id |-> task[t].call.messageId,
                     addLabelIds |-> << task[t].call.classification[1].labelId >> ])
  /\ task' = [ task EXCEPT ![t].call.result = Some(succeededResult(task[t].call)),
                           ![t].call.labelCalls = @ + 1,
                           ![t].call.pc = "return" ]
  /\ UNCHANGED << inbox, answers, priors, faults, lastHistoryId, delivered >>

\* a variant that issues the request a second time before it gives up
AddLabelsThrows_TriesAgain(t) ==
  /\ task[t].call.pc = "addLabels"
  /\ task' = [ task EXCEPT
                 ![t].call.result =
                   IF task[t].call.labelCalls >= 1
                     THEN Some(failedResult(task[t].call.messageId, "addLabels failed"))
                     ELSE Undefined,
                 ![t].call.labelCalls = @ + 1,
                 ![t].call.pc = IF task[t].call.labelCalls >= 1 THEN "return"
                                ELSE "addLabels" ]
  /\ UNCHANGED << inbox, modified, answers, priors, faults, lastHistoryId, delivered >>

\* EmailClassifier.applyLabel: GmailClient.addLabels threw, applyLabel
\* rethrows and EmailClassifier.classifyEmail catches
AddLabelsThrows(t) ==
  /\ task[t].call.pc = "addLabels"
  /\ task' = [ task EXCEPT ![t].call.result =
                   Some(failedResult(task[t].call.messageId, "addLabels failed")),
                 ![t].call.labelCalls = @ + 1,
                 ![t].call.pc = "return" ]
  /\ UNCHANGED << inbox, modified, answers, priors, faults, lastHistoryId, delivered >>

\* the steps of a call of EmailClassifier.classifyEmail in progress
ClassifyEmailStep(t) ==
  \/ GetEmailReturns(t)
  \/ GetEmailRetries(t)
  \/ GetEmailThrows(t)
  \/ \E n \in priors : LookupFromReturns(t, n)
  \/ \E n \in priors : LookupToReturns(t, n)
  \/ LookupThrows(t)
  \/ ModelCallThrows(t)
  \/ \E content \in answers : ModelCallReturns(t, content)
  \/ AddLabelsReturns(t)
  \/ AddLabelsThrows(t)

(***************************************************************************)
(* The label decision on its own: a call of EmailClassifier.classifyEmail  *)
(* that has fetched its email and analysed it is about to ask the model.   *)
(* The email, the history found and the model's behaviour range over the   *)
(* sets below.                                                             *)
(***************************************************************************)
DecideSubjects ==
  { "Flight booking confirmation", "Your receipt for the TRAIN ride",
    "Invoice attached", "Updated invitation: planning",
    "New comment on Design Doc", "New comment on the meeting notes",
    "Security alert", "Business as usual", "Hello" }

DecideTexts ==
  { "", "Your order has shipped", "50% off sale",
    "Can we talk? Are you free?", "Can we talk?", "See you soon" }

DecideLabelSets ==
  { { "INBOX" }, { "INBOX", "CATEGORY_PROMOTIONS" }, { "INBOX", "CATEGORY_UPDATES" } }

DecideHeaders ==
  { << >>,
    << << "Auto-Submitted", "auto-generated" >> >>,
    << << "In-Reply-To", "<msg-1@example.com>" >> >>,
    << << "List-Unsubscribe", "<mailto:leave@example.com>" >> >>,
    << << "List-Unsubscribe", "" >> >>,
    << << "Auto-Submitted", "auto-generated" >>,
       << "List-Unsubscribe", "<mailto:leave@example.com>" >>,
       << "Precedence", "bulk" >> >> }

DecideSenders == { "Alice <alice@example.com>", "noreply@shop.example" }

DecideMessages ==
  { [ id |-> "m1", threadId |-> "t1", historyId |-> 1, labelIds |-> l, text |-> x,
      headers |-> << << "Subject", s >>, << "From", f >> >> \o h ] :
      s \in DecideSubjects, x \in DecideTexts, l \in DecideLabelSets,
      h \in DecideHeaders, f \in DecideSenders }

\* what the model may answer: response.choices[0].message.content
ResponseTexts ==
  { "{\"labelId\":\"Label_10\",\"labelName\":\"Tickets\",\"confidence\":\"HIGH\",\"reasoning\":\"travel\"}",
    "Answer:\n{ \"labelId\": \"Label_15\" }\nDone.",
    "{\"labelId\":\"Label_99\"}",
    "{\"labelId\":\"\"}",
    "{\"labelId\": null}",
    "{}",
    "I would pick Label_17 here",
    "Sorry, I cannot classify this",
    "{not json} Label_10",
    "{\"labelId\":\"Label_19\"} or maybe {\"labelId\":\"Label_17\"}" }

AllAnswers == { Some(r) : r \in ResponseTexts } \cup { Undefined }

InitDecide ==
  \E raw \in DecideMessages, n \in 0..MaxPrior :
    /\ inbox = << raw >>
    /\ modified = << >>
    /\ answers = AllAnswers
    /\ priors = 0..MaxPrior
    /\ faults = UsualFaults
    /\ lastHistoryId = Undefined
    /\ delivered = 0
    /\ task = [ t \in Tasks |->
         IF t = 0
           THEN [ IdleTask EXCEPT
                    !.op = "classifyEmail", !.pc = "call",
                    !.call = [ beginCall(raw.id) EXCEPT
                       !.pc = "model",
                       !.email = Some(parseEmailData(raw)),
                       !.analysis = Some(performRelationshipAnalysis(
                                      parseEmailData(raw),
                                      historyFound(PriorList(n), << >>))) ] ]
           ELSE IdleTask ]

NextDecide ==
  \E t \in Tasks :
    \/ ModelCallThrows(t)
    \/ \E content \in answers : ModelCallReturns(t, content)

SpecDecide == InitDecide /\ [][NextDecide]_vars

\* the calls of classifyEmail whose label decision has been taken
Decided == { t \in Tasks : task[t].call.pc = "addLabels" }

\* C1: whatever the email, the analysis and the behaviour of the model call,
\* the labelId of the classification is one of the 8 configured label ids
C1_LabelIdIsConfigured ==
  \A t \in Decided :
    task[t].call.classification[1].labelId \in { Some(l) : l \in LabelIdSet }

\* the four properties of a classification that the decision sets
Decision(c) ==
  [ labelId |-> c.labelId, labelName |-> c.labelName,
    confidence |-> c.confidence, reasoning |-> c.reasoning ]

\* the conditions of the eight rules of the cascade, in the order of the list
RuleMatches(email, ra) ==
  << appearsTicket(email),
     appearsReceipt(email),
     containsMeetingKeywords(email.subject),
     containsCommentKeywords(email.subject),
     ~ra.history.hasHistory /\ appearsPromotional(email),
     appearsNotification(email, ra.domain),
     ra.thread.isReply \/ containsQuestionMarks(email.text),
     TRUE >>

RuleLabels ==
  << TICKETS, RECEIPTS, MEETING_UPDATE, COMMENT, MARKETING, NOTIFICATION,
     TO_RESPOND, FYI >>

\* the label of the first rule that matches
FirstMatchLabel(email, ra) ==
  LET m == RuleMatches(email, ra) IN
  RuleLabels[CHOOSE i \in 1..Len(m) : m[i] /\ \A j \in 1..(i - 1) : ~m[j]]

\* the response gives no parseable JSON object / no known label id
NoParseableJson(content) ==
  \/ ~IsDefined(content)
  \/ ~IsDefined(jsonMatch(content[1]))
  \/ ~JSONparse(jsonMatch(content[1])[1]).ok

NoLabelSubstring(content) ==
  ~IsDefined(content) \/ \A l \in LabelIdSet : ~includes(content[1], l)

Threw(t) == task[t].call.outcome[1].throws

Unusable(t) ==
  /\ ~task[t].call.outcome[1].throws
  /\ IsDefined(task[t].call.outcome[1].content)
  /\ NoParseableJson(task[t].call.outcome[1].content)
  /\ NoLabelSubstring(task[t].call.outcome[1].content)

CascadeResult(t) ==
  fallbackClassification(task[t].call.email[1], task[t].call.analysis[1])

C3_StrictPriority ==
  \A t \in Decided :
    Threw(t) =>
      LET email == task[t].call.email[1]
          c     == task[t].call.classification[1]
      IN /\ c.labelId = Some(FirstMatchLabel(email, task[t].call.analysis[1]))
         /\ someIncluded(ticketKeywords,
                         toLowerCase(email.subject \o " " \o email.text))
              => c.labelId = Some(TICKETS)
         /\ email.subject = "Flight booking confirmation" /\ email.text = ""
              => c.labelId = Some(TICKETS)

\* C3, witness: an email with a ticket keyword and a receipt keyword, and
\* promotional and notification signals, is labelled TICKETS
C3_TicketBeatsReceipt ==
  \E t \in Decided :
    /\ Threw(t)
    /\ appearsTicket(task[t].call.email[1])
    /\ appearsReceipt(task[t].call.email[1])
    /\ appearsPromotional(task[t].call.email[1])
    /\ task[t].call.classification[1].labelId = Some(TICKETS)

\* C4: every classification of the fallback cascade has confidence LOW, and
\* its label is FYI when none of the rules 1 to 7 matches
C4_FallbackIsLow ==
  \A t \in Decided :
    Threw(t) =>
      LET m == RuleMatches(task[t].call.email[1], task[t].call.analysis[1])
          c == task[t].call.classification[1]
      IN /\ c.confidence = "LOW"
         /\ (\A i \in 1..(Len(m) - 1) : ~m[i]) => c.labelId = Some(FYI)

\* C4, witness: the cascade answers an email that matches no rule
C4_NothingMatches ==
  \E t \in Decided :
    /\ Threw(t)
    /\ \A i \in 1..7 :
         ~RuleMatches(task[t].call.email[1], task[t].call.analysis[1])[i]
    /\ task[t].call.classification[1].labelId = Some(FYI)
    /\ task[t].call.classification[1].confidence = "LOW"

(***************************************************************************)
(* The mailbox of the runs of the whole pipeline                           *)
(***************************************************************************)
\* the messages the mailbox may hold; message k has id "m<k>" and history
\* id 10 + k
MailSubjects == << "Hello", "Invoice attached", "Flight booking confirmation" >>
MailSenders == << "Alice <alice@example.com>", "noreply@shop.example", "" >>
MailTexts == << "Can we talk?", "", "See you soon" >>

Message(k) ==
  LET v == ((k - 1) % 3) + 1 IN
  [ id |-> "m" \o ToString(k), threadId |-> "t" \o ToString(k),
    historyId |-> 10 + k, labelIds |-> { "INBOX" }, text |-> MailTexts[v],
    headers |-> IF MailSenders[v] = ""
                  THEN << << "Subject", MailSubjects[v] >> >>
                  ELSE << << "Subject", MailSubjects[v] >>,
                          << "From", MailSenders[v] >> >> ]

\* the contents the model may answer with in the runs of the whole pipeline
PipelineAnswers ==
  { Some("{\"labelId\":\"Label_19\",\"labelName\":\"To Respond\",\"confidence\":\"HIGH\",\"reasoning\":\"a question\"}"),
    Some("Sorry, I cannot classify this") }

(***************************************************************************)
(* classify <messageId>: one call of EmailClassifier.classifyEmail         *)
(***************************************************************************)
\* an id of no message of the mailbox
UnknownId == "m404"

InitClassify ==
  \E k \in 1..3, messageId \in { "m1", "m2", "m3", UnknownId } :
    /\ inbox = [ j \in 1..k |-> Message(j) ]
    /\ modified = << >>
    /\ answers = PipelineAnswers \cup { Some("{\"labelId\":\"Label_99\"}") }
    /\ priors = 0..MaxPrior
    /\ faults = UsualFaults
    /\ lastHistoryId = Undefined
    /\ delivered = 0
    /\ task = [ t \in Tasks |->
         IF t = 0
           THEN [ IdleTask EXCEPT !.op = "classifyEmail", !.pc = "call",
                                  !.ids = << messageId >>,
                                  !.call = beginCall(messageId) ]
           ELSE IdleTask ]

\* the command has its result
ClassifyCommandReturns(t) ==
  /\ task[t].op = "classifyEmail"
  /\ task[t].pc = "call"
  /\ task[t].call.pc = "return"
  /\ task' = [ task EXCEPT ![t].results = << task[t].call.result[1] >>,
                           ![t].i = 1,
                           ![t].pc = "done",
                           ![t].call = NoCall ]
  /\ UNCHANGED << inbox, modified, answers, priors, faults, lastHistoryId, delivered >>

NextClassify ==
  \E t \in Tasks :
    \/ ClassifyEmailStep(t)
    \/ ClassifyCommandReturns(t)

SpecClassify == InitClassify /\ [][NextClassify]_vars

\* the calls whose relationship analysis is complete
Analysed == { t \in Tasks : IsDefined(task[t].call.analysis) }

\* C5: every result of checkEmailHistory, on the success path and on the
\* lookup-error path, has hasHistory = (receivedCount > 0 or sentCount > 0)
C5_HasHistoryIffCounts ==
  \A t \in Analysed :
    LET h == task[t].call.analysis[1].history IN
    h.hasHistory <=> (h.receivedCount > 0 \/ h.sentCount > 0)

\* C5, witness: the lookups found messages sent to the sender only, and the
\* analysis has history
C5_SentOnlyIsHistory ==
  \E t \in Analysed :
    LET h == task[t].call.analysis[1].history IN
    /\ task[t].call.lookups = << "returned", "returned" >>
    /\ h.receivedCount = 0
    /\ h.sentCount > 0
    /\ h.hasHistory

\* C6: when one of the two history lookups fails, the analysis is complete
\* all the same and the call goes on: hasHistory is false, both counts are 0
\* and the summary notes the error, also when the first lookup had returned
\* messages
C6_LookupFailureDegrades ==
  \A t \in Tasks :
    (task[t].call.lookups # << >> /\
     task[t].call.lookups[Len(task[t].call.lookups)] = "threw") =>
      /\ IsDefined(task[t].call.analysis)
      /\ task[t].call.pc \in { "model", "addLabels", "return" }
      /\ LET h == task[t].call.analysis[1].history IN
           /\ ~h.hasHistory
           /\ h.receivedCount = 0
           /\ h.sentCount = 0
           /\ includes(h.summary, "Error checking history")
           /\ IsDefined(h.error)
      /\ task[t].call.pc = "return" =>
           task[t].call.result[1].error # Some("search failed")

\* C6, witness: the second lookup failed after the first had returned prior
\* messages, and the call ended with success
C6_SecondLookupFailed ==
  \E t \in Tasks :
    /\ task[t].call.lookups = << "returned", "threw" >>
    /\ Len(task[t].call.received) > 0
    /\ ~task[t].call.analysis[1].history.hasHistory
    /\ task[t].call.pc = "return"
    /\ task[t].call.result[1].success

\* C7: EmailClassifier.classifyEmail never throws: every call that ended has
\* a result for its message id; a failure of the fetch or of the label
\* application gives a result with success false and an error, and the
\* label application was requested once only
C7_FailureIsAResult ==
  \A t \in Tasks :
    task[t].call.pc = "return" =>
      /\ IsDefined(task[t].call.result)
      /\ LET r == task[t].call.result[1] IN
           /\ r.messageId = task[t].call.messageId
           /\ r.success <=> ~IsDefined(r.error)
           /\ ~IsDefined(task[t].call.email) => ~r.success
           /\ r.success <=> \E j \in 1..Len(modified) :
                              modified[j].id = task[t].call.messageId
           /\ task[t].call.labelCalls <= 1
           /\ r.success => task[t].call.labelCalls = 1

\* C7, witness: the label application failed and the call ended with a
\* failed result, after one request
C7_LabelFailureReported ==
  \E t \in Tasks :
    /\ task[t].call.pc = "return"
    /\ task[t].call.labelCalls = 1
    /\ ~task[t].call.result[1].success
    /\ task[t].call.result[1].error = Some("addLabels failed")
    /\ modified = << >>

(***************************************************************************)
(* classify-batch: EmailClassifier.classifyEmails(messageIds)              *)
(***************************************************************************)
\* the longest list of ids of a batch
MaxIds == 3

SeqsUpTo(S, n) == UNION { [ 1..k -> S ] : k \in 0..n }

InitBatch ==
  \E messageIds \in SeqsUpTo({ "m1", UnknownId }, MaxIds) :
    /\ inbox = << Message(1) >>
    /\ modified = << >>
    /\ answers = PipelineAnswers
    /\ priors = { 0 }
    /\ faults = UsualFaults
    /\ lastHistoryId = Undefined
    /\ delivered = 0
    /\ task = [ t \in Tasks |->
         IF t = 0
           THEN [ IdleTask EXCEPT !.op = "classifyEmails", !.pc = "loop",
                                  !.ids = messageIds ]
           ELSE IdleTask ]

\* for (const messageId of messageIds): the call for the next id
BatchCalls(t) ==
  /\ task[t].op = "classifyEmails"
  /\ task[t].pc = "loop"
  /\ task[t].call.pc = "none"
  /\ task[t].i < Len(task[t].ids)
  /\ task' = [ task EXCEPT ![t].call = beginCall(task[t].ids[task[t].i + 1]) ]
  /\ UNCHANGED << inbox, modified, answers, priors, faults, lastHistoryId, delivered >>

\* a variant that leaves the loop at the first failed result
BatchPushes_StopsOnFailure(t) ==
  /\ task[t].op = "classifyEmails"
  /\ task[t].pc = "loop"
  /\ task[t].call.pc = "return"
  /\ task' = [ task EXCEPT
                 ![t].results = Append(@, task[t].call.result[1]),
                 ![t].i = IF task[t].call.result[1].success THEN @ + 1
                          ELSE Len(task[t].ids),
                 ![t].call = NoCall ]
  /\ UNCHANGED << inbox, modified, answers, priors, faults, lastHistoryId, delivered >>

\* results.push(result), and the delay before the next id
BatchPushes(t) ==
  /\ task[t].op = "classifyEmails"
  /\ task[t].pc = "loop"
  /\ task[t].call.pc = "return"
  /\ task' = [ task EXCEPT ![t].results = Append(@, task[t].call.result[1]),
                           ![t].i = @ + 1,
                           ![t].call = NoCall ]
  /\ UNCHANGED << inbox, modified, answers, priors, faults, lastHistoryId, delivered >>

\* return results
BatchReturns(t) ==
  /\ task[t].op = "classifyEmails"
  /\ task[t].pc = "loop"
  /\ task[t].call.pc = "none"
  /\ task[t].i = Len(task[t].ids)
  /\ task' = [ task EXCEPT ![t].pc = "done" ]
  /\ UNCHANGED << inbox, modified, answers, priors, faults, lastHistoryId, delivered >>

NextBatch ==
  \E t \in Tasks :
    \/ BatchCalls(t)
    \/ ClassifyEmailStep(t)
    \/ BatchPushes(t)
    \/ BatchReturns(t)

SpecBatch == InitBatch /\ [][NextBatch]_vars

\* C8: classifyEmails returns one result per id, in the order of the ids; the
\* result of an id whose processing failed is a failed result with an error,
\* and the ids after it have their results too
C8_OneResultPerId ==
  \A t \in Tasks :
    task[t].op = "classifyEmails" =>
      /\ Len(task[t].results) <= Len(task[t].ids)
      /\ \A j \in 1..Len(task[t].results) :
           /\ task[t].results[j].messageId = task[t].ids[j]
           /\ ~task[t].results[j].success => IsDefined(task[t].results[j].error)
           /\ task[t].ids[j] = UnknownId => ~task[t].results[j].success
      /\ task[t].pc = "done" => Len(task[t].results) = Len(task[t].ids)

\* C8, witness: a batch of three ids has returned; the first id failed and a
\* later id succeeded
C8_FailureThenSuccess ==
  \E t \in Tasks :
    /\ task[t].op = "classifyEmails"
    /\ task[t].pc = "done"
    /\ Len(task[t].ids) = 3
    /\ Len(task[t].results) = 3
    /\ ~task[t].results[1].success
    /\ task[t].results[3].success

(***************************************************************************)
(* monitor: EmailClassifier.startMonitoring(options)                       *)
(***************************************************************************)
\* the most messages the mailbox comes to hold
MaxMsgs == 1
\* the most iterations of the polling loop
MaxPolls == 2
\* CONFIG.GMAIL.MAX_RESULTS
MAX_RESULTS == 200
\* emails.slice(0, 5) on the initial run
InitialRun == 5

\* a message arrives in the mailbox
Arrive ==
  /\ Len(inbox) < MaxMsgs
  /\ inbox' = Append(inbox, Message(Len(inbox) + 1))
  /\ UNCHANGED << modified, answers, priors, faults, lastHistoryId, delivered, task >>

RECURSIVE filterNewer(_, _)
\* emails.filter(email => email.historyId > lastHistoryId)
filterNewer(emails, cursor) ==
  IF emails = << >> THEN << >>
  ELSE ( IF greaterThan(field(emails[1], "historyId"), cursor)
           THEN << emails[1] >> ELSE << >> )
       \o filterNewer(Tail(emails), cursor)

\* GmailClient.searchEmails(query, maxResults): users.messages.list gives the
\* newest messages first, and every one of them is fetched and parsed
searchEmails(maxResults) ==
  LET n == IF Len(inbox) < maxResults THEN Len(inbox) ELSE maxResults IN
  [ j \in 1..n |-> parseEmailData(inbox[Len(inbox) + 1 - j]) ]

\* the entry of the console log for the result of an email of a loop
logged(result, poll) ==
  [ messageId |-> result.messageId, success |-> result.success, poll |-> poll ]

InitMonitor ==
  \E k \in 0..MaxMsgs :
    /\ inbox = [ j \in 1..k |-> Message(j) ]
    /\ modified = << >>
    /\ answers = PipelineAnswers
    /\ priors = 0..MaxPrior
    /\ faults = UsualFaults
    /\ lastHistoryId = Undefined
    /\ delivered = 0
    /\ task = [ t \in Tasks |->
         IF t = 0
           THEN [ IdleTask EXCEPT !.op = "startMonitoring", !.pc = "poll",
                                  !.polls = 1 ]
           ELSE IdleTask ]

\* searchEmails returned: the new emails are chosen
SearchEmailsReturns(t) ==
  /\ task[t].op = "startMonitoring"
  /\ task[t].pc = "poll"
  /\ LET emails    == searchEmails(MAX_RESULTS)
         newEmails == IF TruthyNumber(task[t].cursor)
                        THEN filterNewer(emails, task[t].cursor)
                        ELSE SubSeq(emails, 1,
                               IF Len(emails) < InitialRun THEN Len(emails)
                               ELSE InitialRun)
     IN task' = [ task EXCEPT
                    ![t].emails = newEmails,
                    ![t].i = 0,
                    ![t].lookup = "returned",
                    ![t].pc = IF Len(newEmails) > 0 THEN "loop" ELSE "wait",
                    ![t].delay = IF Len(newEmails) > 0 THEN 0 ELSE 1 ]
  /\ UNCHANGED << inbox, modified, answers, priors, faults, lastHistoryId, delivered >>

\* a variant whose catch waits the poll interval itself
SearchEmailsThrows_NormalWait(t) ==
  /\ task[t].op = "startMonitoring"
  /\ task[t].pc = "poll"
  /\ task' = [ task EXCEPT ![t].pc = "wait", ![t].delay = 1,
                           ![t].lookup = "threw" ]
  /\ UNCHANGED << inbox, modified, answers, priors, faults, lastHistoryId, delivered >>

\* searchEmails threw: the loop waits twice the poll interval
SearchEmailsThrows(t) ==
  /\ task[t].op = "startMonitoring"
  /\ task[t].pc = "poll"
  /\ task' = [ task EXCEPT ![t].pc = "wait", ![t].delay = 2,
                           ![t].lookup = "threw" ]
  /\ UNCHANGED << inbox, modified, answers, priors, faults, lastHistoryId, delivered >>

\* for (const email of newEmails): the call for the next email
MonitorCalls(t) ==
  /\ task[t].op = "startMonitoring"
  /\ task[t].pc = "loop"
  /\ task[t].call.pc = "none"
  /\ task[t].i < Len(task[t].emails)
  /\ task' = [ task EXCEPT ![t].call = beginCall(task[t].emails[task[t].i + 1].id) ]
  /\ UNCHANGED << inbox, modified, answers, priors, faults, lastHistoryId, delivered >>

\* the result of the call is logged and the cursor updated
MonitorItemDone(t) ==
  /\ task[t].op = "startMonitoring"
  /\ task[t].pc = "loop"
  /\ task[t].call.pc = "return"
  /\ LET email == task[t].emails[task[t].i + 1] IN
     task' = [ task EXCEPT
                 ![t].results = Append(@, logged(task[t].call.result[1], task[t].polls)),
                 ![t].cursor =
                   IF ~TruthyNumber(@) \/ greaterThan(field(email, "historyId"), @)
                     THEN field(email, "historyId") ELSE @,
                 ![t].i = @ + 1,
                 ![t].call = NoCall ]
  /\ UNCHANGED << inbox, modified, answers, priors, faults, lastHistoryId, delivered >>

\* the loop over the new emails is over: wait the poll interval
MonitorLoopEnds(t) ==
  /\ task[t].op = "startMonitoring"
  /\ task[t].pc = "loop"
  /\ task[t].call.pc = "none"
  /\ task[t].i = Len(task[t].emails)
  /\ task' = [ task EXCEPT ![t].pc = "wait", ![t].delay = 1 ]
  /\ UNCHANGED << inbox, modified, answers, priors, faults, lastHistoryId, delivered >>

\* the wait is over: while (true)
PollAgain(t) ==
  /\ task[t].op = "startMonitoring"
  /\ task[t].pc = "wait"
  /\ task[t].polls < MaxPolls
  /\ task' = [ task EXCEPT ![t].pc = "poll", ![t].polls = @ + 1, ![t].delay = 0 ]
  /\ UNCHANGED << inbox, modified, answers, priors, faults, lastHistoryId, delivered >>

NextMonitor ==
  \/ Arrive
  \/ \E t \in Tasks :
       \/ SearchEmailsReturns(t)
       \/ SearchEmailsThrows(t)
       \/ MonitorCalls(t)
       \/ ClassifyEmailStep(t)
       \/ MonitorItemDone(t)
       \/ MonitorLoopEnds(t)
       \/ PollAgain(t)

SpecMonitor == InitMonitor /\ [][NextMonitor]_vars

\* C9: in polling mode a message classified in one iteration of the loop is
\* not submitted to classifyEmail again in a later iteration
C9_NoReclassification ==
  \A t \in Tasks :
    task[t].op = "startMonitoring" =>
      \A j, k \in 1..Len(task[t].results) :
        ( /\ j < k
          /\ task[t].results[j].success
          /\ task[t].results[j].messageId = task[t].results[k].messageId )
          => task[t].results[j].poll = task[t].results[k].poll

(***************************************************************************)
(* push: handleGmailWebhook and EmailClassifier.processHistoryChanges      *)
(***************************************************************************)
\* the most push notifications delivered
MaxNotes == 2
\* the history id of the mailbox before its first message
BaseHistoryId == 10
\* searchEmails('in:inbox', 5) of processHistoryChanges
RecentEmails == 5

Handlers == Tasks \ { 0 }

\* GmailClient.getHistory(startHistoryId): the ids of the messages added
\* after the start, oldest first
RECURSIVE addedSince(_, _)
addedSince(messages, startHistoryId) ==
  IF messages = << >> THEN << >>
  ELSE ( IF messages[1].historyId > startHistoryId
           THEN << messages[1].id >> ELSE << >> )
       \o addedSince(Tail(messages), startHistoryId)

InitPush ==
  \E k \in 0..MaxMsgs, watching \in BOOLEAN :
    /\ inbox = [ j \in 1..k |-> Message(j) ]
    /\ modified = << >>
    /\ answers = { Some("{\"labelId\":\"Label_19\"}") }
    /\ priors = { 0 }
    /\ faults = UsualFaults
    /\ lastHistoryId = IF watching THEN Some(BaseHistoryId + k) ELSE Undefined
    /\ delivered = 0
    /\ task = [ t \in Tasks |-> IdleTask ]

\* a POST to /gmail-webhook with a truthy historyId (the history id of the
\* mailbox after one of its changes: the arrival of a message or a later
\* change of labels): processHistoryChanges is called and runs to its first
\* await
Notify(t, historyId) ==
  /\ task[t].op = "idle"
  /\ delivered < MaxNotes
  /\ delivered' = delivered + 1
  /\ task' = [ task EXCEPT
                 ![t].op = "processHistoryChanges",
                 ![t].historyId = Some(historyId),
                 ![t].cursor = lastHistoryId,
                 ![t].pc = IF TruthyNumber(lastHistoryId) THEN "getHistory"
                           ELSE "searchEmails" ]
  /\ UNCHANGED << inbox, modified, answers, priors, faults, lastHistoryId >>

\* no baseline: searchEmails('in:inbox', 5) returned, processEmails begins
SearchRecentReturns(t) ==
  /\ task[t].op = "processHistoryChanges"
  /\ task[t].pc = "searchEmails"
  /\ LET recentEmails == searchEmails(RecentEmails) IN
     task' = [ task EXCEPT
                 ![t].emails = recentEmails,
                 ![t].ids = [ j \in 1..Len(recentEmails) |-> recentEmails[j].id ],
                 ![t].i = 0,
                 ![t].pc = "processEmails" ]
  /\ UNCHANGED << inbox, modified, answers, priors, faults, lastHistoryId, delivered >>

\* a variant that stores the history id of the notification also when the
\* history has no changes
GetHistoryReturns_MovesCursorOnEmpty(t) ==
  /\ task[t].op = "processHistoryChanges"
  /\ task[t].pc = "getHistory"
  /\ LET newMessageIds == addedSince(inbox, task[t].cursor[1]) IN
     /\ task' = [ task EXCEPT
                    ![t] = IF newMessageIds = << >> THEN IdleTask
                           ELSE [ @ EXCEPT !.ids = newMessageIds, !.i = 0,
                                           !.pc = "loop" ] ]
     /\ lastHistoryId' = IF newMessageIds = << >> THEN task[t].historyId
                         ELSE lastHistoryId
  /\ UNCHANGED << inbox, modified, answers, priors, faults, delivered >>

\* getHistory(this.lastHistoryId) returned: no changes, or the ids to process
GetHistoryReturns(t) ==
  /\ task[t].op = "processHistoryChanges"
  /\ task[t].pc = "getHistory"
  /\ LET newMessageIds == addedSince(inbox, task[t].cursor[1]) IN
     task' = [ task EXCEPT
                 ![t] = IF newMessageIds = << >> THEN IdleTask
                        ELSE [ @ EXCEPT !.ids = newMessageIds, !.i = 0,
                                        !.pc = "loop" ] ]
  /\ UNCHANGED << inbox, modified, answers, priors, faults, lastHistoryId, delivered >>

\* searchEmails or getHistory threw: the catch of processHistoryChanges
LookupOfChangesThrows(t) ==
  /\ task[t].op = "processHistoryChanges"
  /\ task[t].pc \in { "searchEmails", "getHistory" }
  /\ task' = [ task EXCEPT ![t] = IdleTask ]
  /\ UNCHANGED << inbox, modified, answers, priors, faults, lastHistoryId, delivered >>

\* the call of classifyEmail for the next id, in either loop
PushCalls(t) ==
  /\ task[t].op = "processHistoryChanges"
  /\ task[t].pc \in { "processEmails", "loop" }
  /\ task[t].call.pc = "none"
  /\ task[t].i < Len(task[t].ids)
  /\ task' = [ task EXCEPT ![t].call = beginCall(task[t].ids[task[t].i + 1]) ]
  /\ UNCHANGED << inbox, modified, answers, priors, faults, lastHistoryId, delivered >>

\* classifyEmail returned; its result is not looked at
PushItemDone(t) ==
  /\ task[t].op = "processHistoryChanges"
  /\ task[t].pc \in { "processEmails", "loop" }
  /\ task[t].call.pc = "return"
  /\ task' = [ task EXCEPT
                 ![t].results = Append(@, logged(task[t].call.result[1], 0)),
                 ![t].i = @ + 1,
                 ![t].call = NoCall ]
  /\ UNCHANGED << inbox, modified, answers, priors, faults, lastHistoryId, delivered >>

\* the loop is over: this.lastHistoryId = historyId, and the call returns
PushLoopEnds(t) ==
  /\ task[t].op = "processHistoryChanges"
  /\ task[t].pc \in { "processEmails", "loop" }
  /\ task[t].call.pc = "none"
  /\ task[t].i = Len(task[t].ids)
  /\ lastHistoryId' = task[t].historyId
  /\ task' = [ task EXCEPT ![t] = IdleTask ]
  /\ UNCHANGED << inbox, modified, answers, priors, faults, delivered >>

NextPush ==
  \/ Arrive
  \/ \E t \in Handlers :
       \/ \E h \in (BaseHistoryId + 1)..(BaseHistoryId + Len(inbox) + 1) :
            Notify(t, h)
       \/ SearchRecentReturns(t)
       \/ GetHistoryReturns(t)
       \/ LookupOfChangesThrows(t)
       \/ PushCalls(t)
       \/ ClassifyEmailStep(t)
       \/ PushItemDone(t)
       \/ PushLoopEnds(t)

SpecPush == InitPush /\ [][NextPush]_vars

\* C10: the cursor is advanced only after successful processing: a step of
\* the poll loop or of processHistoryChanges that moves the cursor from one
\* history id to another follows results with success true only
C10_CursorMovesAfterSuccessOnly ==
  [][ \A t \in Tasks :
        /\ ( /\ task[t].op = "processHistoryChanges"
             /\ task'[t].op = "idle"
             /\ IsDefined(lastHistoryId)
             /\ lastHistoryId' # lastHistoryId )
           => \A j \in 1..Len(task[t].results) : task[t].results[j].success
        /\ ( /\ task[t].op = "startMonitoring"
             /\ IsDefined(task[t].cursor)
             /\ task'[t].cursor # task[t].cursor )
           => task[t].call.result[1].success ]_vars

(***************************************************************************)
(* Claims on the answer of the model                                       *)
(***************************************************************************)
\* the calls whose chat completion request returned a text
Answered == { t \in Tasks : /\ IsDefined(task[t].call.outcome)
                            /\ ~task[t].call.outcome[1].throws
                            /\ IsDefined(task[t].call.outcome[1].content) }

\* the text the request of call t returned
AnswerOf(t) == task[t].call.outcome[1].content[1]

\* the text holds a JSON object that parses, and the labelId of that object
HoldsJson(text) ==
  IsDefined(jsonMatch(text)) /\ JSONparse(jsonMatch(text)[1]).ok

JsonLabelId(text) == Prop(JSONparse(jsonMatch(text)[1]).val, "labelId")

\* C11: a response with valid JSON whose labelId is a string that is none of
\* the 8 configured ids is accepted as it is: the classification has that
\* labelId (and no fallback or default takes its place), and the label
\* application of the call is requested with that labelId
C11_UnknownLabelIdPassesThrough ==
  \A t \in Answered :
    ( /\ HoldsJson(AnswerOf(t))
      /\ Truthy(JsonLabelId(AnswerOf(t)))
      /\ JsonLabelId(AnswerOf(t))[1] \notin LabelIdSet ) =>
      /\ task[t].call.classification[1].labelId = JsonLabelId(AnswerOf(t))
      /\ task[t].call.classification[1].confidence # "LOW"
      /\ task[t].call.classification[1].rawResponse = Some(AnswerOf(t))
      /\ task[t].call.pc \in { "addLabels", "return" }
      /\ ( task[t].call.pc = "return" /\ task[t].call.result[1].success ) =>
           /\ modified # << >>
           /\ modified[Len(modified)] =
                [ id |-> task[t].call.messageId,
                  addLabelIds |-> << JsonLabelId(AnswerOf(t)) >> ]
           /\ task[t].call.result[1].classification[1].labelId =
                JsonLabelId(AnswerOf(t))

\* C11, witness: the label Label_99 of the answer was applied to the message
C11_UnknownLabelApplied ==
  \E t \in Answered :
    /\ HoldsJson(AnswerOf(t))
    /\ JsonLabelId(AnswerOf(t)) = Some("Label_99")
    /\ task[t].call.pc = "return"
    /\ task[t].call.result[1].success
    /\ modified = << [ id |-> task[t].call.messageId,
                       addLabelIds |-> << Some("Label_99") >> ] >>

(***************************************************************************)
(* The relationship analysis on its own: a call of                         *)
(* EmailClassifier.classifyEmail fetches its email and analyses it.  The   *)
(* headers and the sender of the email range over the sets below.          *)
(***************************************************************************)
AnalyseHeaders ==
  { << >>,
    << << "Auto-Submitted", "auto-generated" >> >>,
    << << "Auto-Submitted", "" >> >>,
    << << "In-Reply-To", "<msg-1@example.com>" >> >>,
    << << "In-Reply-To", "" >> >>,
    << << "References", "<msg-1@example.com>" >> >>,
    << << "List-Unsubscribe", "<mailto:leave@example.com>" >> >>,
    << << "List-Unsubscribe", "" >> >>,
    << << "Precedence", "bulk" >> >>,
    << << "Precedence", "Bulk" >> >>,
    << << "List-Unsubscribe", "<mailto:leave@example.com>" >>,
       << "Precedence", "bulk" >> >>,
    << << "Auto-Submitted", "auto-generated" >>,
       << "In-Reply-To", "<msg-1@example.com>" >>,
       << "List-Unsubscribe", "<mailto:leave@example.com>" >>,
       << "Precedence", "bulk" >> >> }

\* the From header of the email: absent, or one of these values
AnalyseSenders ==
  { << >>,
    << << "From", "" >> >>,
    << << "From", "Alice <alice@example.com>" >> >>,
    << << "From", "noreply@shop.example" >> >>,
    << << "From", "Newsletter <newsletter@shop.example>" >> >>,
    << << "From", "support" >> >> }

AnalyseMessages ==
  { [ id |-> "m1", threadId |-> "t1", historyId |-> 11, labelIds |-> { "INBOX" },
      text |-> "See you soon",
      headers |-> << << "Subject", "Hello" >> >> \o f \o h ] :
      f \in AnalyseSenders, h \in AnalyseHeaders }

InitAnalyse ==
  \E raw \in AnalyseMessages :
    /\ inbox = << raw >>
    /\ modified = << >>
    /\ answers = PipelineAnswers
    /\ priors = 0..MaxPrior
    /\ faults = UsualFaults
    /\ lastHistoryId = Undefined
    /\ delivered = 0
    /\ task = [ t \in Tasks |->
         IF t = 0
           THEN [ IdleTask EXCEPT !.op = "classifyEmail", !.pc = "call",
                                  !.ids = << raw.id >>,
                                  !.call = beginCall(raw.id) ]
           ELSE IdleTask ]

NextAnalyse ==
  \E t \in Tasks :
    \/ GetEmailReturns(t)
    \/ \E n \in priors : LookupFromReturns(t, n)
    \/ \E n \in priors : LookupToReturns(t, n)
    \/ LookupThrows(t)
    \/ ModelCallThrows(t)
    \/ \E content \in answers : ModelCallReturns(t, content)

SpecAnalyse == InitAnalyse /\ [][NextAnalyse]_vars

\* the hints as the list of their names (the text before the colon)
RECURSIVE hintNames(_)
hintNames(hints) ==
  IF hints = << >> THEN << >>
  ELSE LET colon == indexOfChar(hints[1], ":") IN
       << SubSeq(hints[1], 1, colon - 1) >> \o hintNames(Tail(hints))

\* the list of hints that the seven flags determine
HintsOfFlags(hasHistory, isReply, isAutoSubmitted, hasUnsubscribe, isBulk,
             isMarketing, isNoReply) ==
  (IF ~hasHistory THEN << "COLD_EMAIL" >> ELSE << "KNOWN_CONTACT" >>) \o
  (IF ~hasHistory /\ isMarketing THEN << "LIKELY_MARKETING" >> ELSE << >>) \o
  (IF hasHistory /\ isReply THEN << "ONGOING_CONVERSATION" >> ELSE << >>) \o
  (IF isAutoSubmitted THEN << "AUTOMATED" >> ELSE << >>) \o
  (IF hasUnsubscribe /\ isBulk THEN << "BULK_EMAIL" >> ELSE << >>) \o
  (IF isNoReply THEN << "NOTIFICATION_TYPE" >> ELSE << >>)

\* C12: the hints of an analysis are the list that its seven flags determine,
\* in the fixed order: COLD_EMAIL (then LIKELY_MARKETING) or KNOWN_CONTACT
\* (then ONGOING_CONVERSATION), AUTOMATED, BULK_EMAIL only with both the
\* unsubscribe and the bulk flag, NOTIFICATION_TYPE
C12_HintsAreAFunctionOfFlags ==
  \A t \in Analysed :
    LET a == task[t].call.analysis[1] IN
    hintNames(a.classification_hints) =
      HintsOfFlags(a.history.hasHistory, a.thread.isReply,
                   a.thread.isAutoSubmitted, a.thread.hasUnsubscribe,
                   a.thread.isBulk, a.domain.isMarketing, a.domain.isNoReply)

\* C12, witness: an email with the unsubscribe header and no bulk precedence
\* from a marketing-type address without history has the hints COLD_EMAIL
\* and LIKELY_MARKETING and no BULK_EMAIL
C12_UnsubscribeAloneIsNotBulk ==
  \E t \in Analysed :
    LET a == task[t].call.analysis[1] IN
    /\ a.thread.hasUnsubscribe
    /\ ~a.thread.isBulk
    /\ hintNames(a.classification_hints) = << "COLD_EMAIL", "LIKELY_MARKETING" >>

(***************************************************************************)
(* Claims on the rules of the fallback cascade (under SpecDecide)          *)
(***************************************************************************)
\* the calls that the fallback cascade answered, with their email, analysis
\* and label
Cascaded == { t \in Decided : Threw(t) }
EmailOf(t) == task[t].call.email[1]
AnalysisOf(t) == task[t].call.analysis[1]
LabelOf(t) == task[t].call.classification[1].labelId

\* a keyword of the list occurs in subject + " " + body, whatever its case
HasKeyword(keywords, email) ==
  \E i \in 1..Len(keywords) :
    includes(toLowerCase(email.subject \o " " \o email.text), toLowerCase(keywords[i]))

\* a keyword of the list occurs in the subject
SubjectHasKeyword(keywords, email) ==
  \E i \in 1..Len(keywords) :
    includes(toLowerCase(email.subject), toLowerCase(keywords[i]))

\* one of the rules 1 to 4 matches: ticket, receipt, meeting, comment
Rules1To4(email) ==
  \/ HasKeyword(ticketKeywords, email)
  \/ HasKeyword(receiptKeywords, email)
  \/ SubjectHasKeyword(meetingKeywords, email)
  \/ SubjectHasKeyword(commentKeywords, email)

\* the header is present in the email, whatever its value; and with a value
\* that is not empty
HeaderPresent(email, name) == IsDefined(email.headers[name])
HeaderSet(email, name) ==
  IsDefined(email.headers[name]) /\ email.headers[name][1] # ""

\* C13, as stated: the cascade gives MARKETING exactly when none of the
\* rules 1 to 4 matches, the sender has no history and a promotional signal
\* holds: a promotional keyword in subject + body, the CATEGORY_PROMOTIONS
\* label, or the list-unsubscribe header present
C13_MarketingIffSignal ==
  \A t \in Cascaded :
    LabelOf(t) = Some(MARKETING) <=>
      /\ ~Rules1To4(EmailOf(t))
      /\ ~AnalysisOf(t).history.hasHistory
      /\ \/ HasKeyword(promotionalKeywords, EmailOf(t))
         \/ "CATEGORY_PROMOTIONS" \in EmailOf(t).labelIds
         \/ HeaderPresent(EmailOf(t), "list-unsubscribe")

\* C13, amended: the same, with the list-unsubscribe header counted as a
\* signal only when its value is not empty; a sender with history is never
\* labelled MARKETING
C13_MarketingIffSignalWithValue ==
  \A t \in Cascaded :
    /\ LabelOf(t) = Some(MARKETING) <=>
         /\ ~Rules1To4(EmailOf(t))
         /\ ~AnalysisOf(t).history.hasHistory
         /\ \/ HasKeyword(promotionalKeywords, EmailOf(t))
            \/ "CATEGORY_PROMOTIONS" \in EmailOf(t).labelIds
            \/ HeaderSet(EmailOf(t), "list-unsubscribe")
    /\ AnalysisOf(t).history.hasHistory => LabelOf(t) # Some(MARKETING)

\* C13, witness: no history, the body "50% off sale" and the list-unsubscribe
\* header give MARKETING
C13_SaleWithUnsubscribe ==
  \E t \in Cascaded :
    /\ ~AnalysisOf(t).history.hasHistory
    /\ EmailOf(t).text = "50% off sale"
    /\ HeaderSet(EmailOf(t), "list-unsubscribe")
    /\ LabelOf(t) = Some(MARKETING)

\* C14, as stated: an email with the auto-submitted header set and no
\* history, with no promotional keyword in subject and body (and no match of
\* the rules 1 to 4), is labelled NOTIFICATION and not MARKETING
C14_AutoSubmittedIsNotification ==
  \A t \in Cascaded :
    ( /\ HeaderSet(EmailOf(t), "auto-submitted")
      /\ ~AnalysisOf(t).history.hasHistory
      /\ ~HasKeyword(promotionalKeywords, EmailOf(t))
      /\ ~Rules1To4(EmailOf(t)) )
    => LabelOf(t) = Some(NOTIFICATION)

\* C14, amended: the same for an email that has no promotional signal at
\* all: no promotional keyword, no CATEGORY_PROMOTIONS label and no
\* list-unsubscribe header with a value; with one of the two latter signals
\* the email is labelled MARKETING
C14_AutoSubmittedWithoutSignalIsNotification ==
  \A t \in Cascaded :
    ( /\ HeaderSet(EmailOf(t), "auto-submitted")
      /\ ~AnalysisOf(t).history.hasHistory
      /\ ~HasKeyword(promotionalKeywords, EmailOf(t))
      /\ ~Rules1To4(EmailOf(t)) )
    => IF \/ "CATEGORY_PROMOTIONS" \in EmailOf(t).labelIds
          \/ HeaderSet(EmailOf(t), "list-unsubscribe")
         THEN LabelOf(t) = Some(MARKETING)
         ELSE LabelOf(t) = Some(NOTIFICATION)

\* C14, witness: an auto-submitted email without history and without any
\* promotional signal, from an address that is no no-reply address and
\* without the CATEGORY_UPDATES label, is labelled NOTIFICATION
C14_AutoSubmittedOnly ==
  \E t \in Cascaded :
    /\ HeaderSet(EmailOf(t), "auto-submitted")
    /\ ~AnalysisOf(t).history.hasHistory
    /\ ~appearsPromotional(EmailOf(t))
    /\ ~AnalysisOf(t).domain.isNoReply
    /\ "CATEGORY_UPDATES" \notin EmailOf(t).labelIds
    /\ EmailOf(t).subject = "Hello"
    /\ LabelOf(t) = Some(NOTIFICATION)

\* no keyword of any list of the cascade occurs in the email
NoKeywordAtAll(email) ==
  /\ ~Rules1To4(email)
  /\ ~HasKeyword(promotionalKeywords, email)
  /\ ~HasKeyword(notificationKeywords, email)

\* the email is a reply: in-reply-to or references is present
ReplyHeaderPresent(email) ==
  HeaderPresent(email, "in-reply-to") \/ HeaderPresent(email, "references")

QuestionMarks(text) == Cardinality({ i \in 1..Len(text) : CharAt(text, i) = "?" })

\* C15, as stated: a reply whose subject and body match none of the keyword
\* lists of the cascade is labelled TO_RESPOND; so is an email that is no
\* reply and has at least 2 question marks in its body; with fewer than 2
\* question marks and no reply header the label is not TO_RESPOND
C15_ReplyOrQuestionsIsToRespond ==
  \A t \in Cascaded :
    /\ ( NoKeywordAtAll(EmailOf(t)) /\
         ( ReplyHeaderPresent(EmailOf(t)) \/ QuestionMarks(EmailOf(t).text) >= 2 ) )
       => LabelOf(t) = Some(TO_RESPOND)
    /\ ( ~ReplyHeaderPresent(EmailOf(t)) /\ QuestionMarks(EmailOf(t).text) < 2 )
       => LabelOf(t) # Some(TO_RESPOND)

\* the signals of the rules 5 and 6 that are no keywords
PromotionalSignal(email) ==
  "CATEGORY_PROMOTIONS" \in email.labelIds \/ HeaderSet(email, "list-unsubscribe")

NotificationSignal(email, ra) ==
  \/ "CATEGORY_UPDATES" \in email.labelIds
  \/ ra.domain.isNoReply
  \/ HeaderSet(email, "auto-submitted")

\* C15, amended: the same for a reply whose reply header has a value, and
\* for an email that also has none of the signals of the rules 5 and 6 that
\* are no keywords (a promotional signal counts only without history)
C15_ReplyOrQuestionsWithoutSignalIsToRespond ==
  \A t \in Cascaded :
    /\ ( /\ NoKeywordAtAll(EmailOf(t))
         /\ ~( ~AnalysisOf(t).history.hasHistory /\ PromotionalSignal(EmailOf(t)) )
         /\ ~NotificationSignal(EmailOf(t), AnalysisOf(t))
         /\ \/ HeaderSet(EmailOf(t), "in-reply-to")
            \/ HeaderSet(EmailOf(t), "references")
            \/ QuestionMarks(EmailOf(t).text) >= 2 )
       => LabelOf(t) = Some(TO_RESPOND)
    /\ ( ~ReplyHeaderPresent(EmailOf(t)) /\ QuestionMarks(EmailOf(t).text) < 2 )
       => LabelOf(t) # Some(TO_RESPOND)

\* C15, witness: an email that is no reply, with 2 question marks in its
\* body, is labelled TO_RESPOND
C15_TwoQuestionsNoReply ==
  \E t \in Cascaded :
    /\ ~ReplyHeaderPresent(EmailOf(t))
    /\ QuestionMarks(EmailOf(t).text) = 2
    /\ LabelOf(t) = Some(TO_RESPOND)

\* C16, as stated: an email whose subject has a comment keyword and whose
\* subject and body have no ticket and no receipt keyword is labelled COMMENT,
\* whatever its history, headers and labels
C16_CommentSubjectIsComment ==
  \A t \in Cascaded :
    ( /\ SubjectHasKeyword(commentKeywords, EmailOf(t))
      /\ ~HasKeyword(ticketKeywords, EmailOf(t))
      /\ ~HasKeyword(receiptKeywords, EmailOf(t)) )
    => LabelOf(t) = Some(COMMENT)

\* C16, amended: the same when the subject has no meeting keyword either; a
\* subject with a meeting keyword gives MEETING_UPDATE
C16_CommentSubjectWithoutMeetingIsComment ==
  \A t \in Cascaded :
    ( /\ SubjectHasKeyword(commentKeywords, EmailOf(t))
      /\ ~HasKeyword(ticketKeywords, EmailOf(t))
      /\ ~HasKeyword(receiptKeywords, EmailOf(t)) )
    => LabelOf(t) = IF SubjectHasKeyword(meetingKeywords, EmailOf(t))
                      THEN Some(MEETING_UPDATE)
                      ELSE Some(COMMENT)

\* C16, witness: "New comment on Design Doc" is labelled COMMENT for a sender
\* without history whose email carries a promotional label
C16_DesignDocComment ==
  \E t \in Cascaded :
    /\ EmailOf(t).subject = "New comment on Design Doc"
    /\ ~AnalysisOf(t).history.hasHistory
    /\ "CATEGORY_PROMOTIONS" \in EmailOf(t).labelIds
    /\ LabelOf(t) = Some(COMMENT)

(***************************************************************************)
(* Claims on the text of the answer                                        *)
(***************************************************************************)
\* the label ids that occur in the text
LabelsIncluded(text) == { i \in 1..Len(LabelIds) : includes(text, LabelIds[i]) }

\* C17: an answer without parseable JSON (no braces, or braces around text
\* that is no JSON) that contains a label id is resolved to the first such id
\* in the order of declaration, with confidence MEDIUM and the reasoning of
\* the substring match
C17_SubstringScanWithoutJson ==
  \A t \in Answered :
    ( NoParseableJson(Some(AnswerOf(t))) /\ LabelsIncluded(AnswerOf(t)) # {} ) =>
      LET first == CHOOSE i \in LabelsIncluded(AnswerOf(t)) :
                     \A j \in LabelsIncluded(AnswerOf(t)) : i <= j
      IN /\ task[t].call.classification[1].labelId = Some(LabelIds[first])
         /\ task[t].call.classification[1].confidence = "MEDIUM"
         /\ task[t].call.classification[1].reasoning = "Label ID found in response"

\* the position where the braces opened at position from are balanced again;
\* 0 when they never are
RECURSIVE closingBrace(_, _, _)
closingBrace(text, i, depth) ==
  IF i > Len(text) THEN 0
  ELSE IF CharAt(text, i) = "{" THEN closingBrace(text, i + 1, depth + 1)
  ELSE IF CharAt(text, i) = "}"
    THEN IF depth = 1 THEN i ELSE closingBrace(text, i + 1, depth - 1)
  ELSE closingBrace(text, i + 1, depth)

\* the first balanced {...} of the text
firstBalanced(text) ==
  LET first == indexOfChar(text, "{") IN
  IF first >= 1 /\ closingBrace(text, first, 0) > 0
    THEN Some(SubSeq(text, first, closingBrace(text, first, 0)))
    ELSE Undefined

\* C18: the answer is parsed from its first balanced {...}: when that is a
\* valid JSON object, the classification has the labelId of that object, also
\* when text with another closing brace follows it
C18_FirstBalancedObjectIsParsed ==
  \A t \in Answered :
    ( /\ IsDefined(firstBalanced(AnswerOf(t)))
      /\ JSONparse(firstBalanced(AnswerOf(t))[1]).ok ) =>
      task[t].call.classification[1].labelId =
        Prop(JSONparse(firstBalanced(AnswerOf(t))[1]).val, "labelId")

(***************************************************************************)
(* Claims on the steps of one call of EmailClassifier.classifyEmail        *)
(***************************************************************************)
\* the steps of the call of task t that are complete, in the order of the
\* code: 0 none, 1 the fetch, 2 the analysis, 3 the classification
StepsDone(call) ==
  IF ~IsDefined(call.email) THEN 0
  ELSE IF ~IsDefined(call.analysis) THEN 1
  ELSE IF ~IsDefined(call.classification) THEN 2
  ELSE 3

\* C19: a call of classifyEmail runs fetch, analysis, classification and
\* label application in this order; it requests addLabels at most once, only
\* after the three earlier steps are complete, for its own message and with
\* the list of the one labelId of its classification; when the fetch fails
\* (and whenever the analysis is not complete) no label is added
C19_LabelAppliedOnceAfterThreeSteps ==
  /\ Len(modified) <= 1
  /\ \A t \in Tasks :
       LET call == task[t].call IN
       /\ IsDefined(call.analysis) => IsDefined(call.email)
       /\ IsDefined(call.classification) => IsDefined(call.analysis)
       /\ call.pc = "addLabels" => StepsDone(call) = 3
       /\ call.labelCalls <= 1
       /\ call.labelCalls = 1 => StepsDone(call) = 3 /\ call.pc = "return"
       /\ (call.pc # "none" /\ StepsDone(call) < 3) => modified = << >>
       /\ (call.pc # "none" /\ modified # << >>) =>
            /\ call.labelCalls = 1
            /\ modified[1].id = call.messageId
            /\ modified[1].addLabelIds = << call.classification[1].labelId >>
       /\ (call.pc = "return" /\ ~IsDefined(call.email)) =>
            /\ ~call.result[1].success
            /\ call.labelCalls = 0
       /\ (task[t].op = "classifyEmail" /\ task[t].pc = "done") =>
            IF task[t].results[1].success
              THEN modified = << [ id |-> task[t].results[1].messageId,
                                   addLabelIds |->
                                     << task[t].results[1].classification[1].labelId >> ] >>
              ELSE modified = << >>

\* C19, witness: a call has fetched, analysed and classified its message and
\* its one label request was applied
C19_OneLabelAfterThreeSteps ==
  \E t \in Tasks :
    /\ task[t].call.pc = "return"
    /\ StepsDone(task[t].call) = 3
    /\ task[t].call.labelCalls = 1
    /\ modified = << [ id |-> task[t].call.messageId,
                       addLabelIds |-> << task[t].call.classification[1].labelId >> ] >>

(***************************************************************************)
(* Claims on the history-id cursor                                         *)
(***************************************************************************)
\* C20: the stored history-id cursor never decreases: no step of a poll
\* iteration and no step of a call of processHistoryChanges, for any order
\* and repetition of the notifications, replaces a history id by a lower one
C20_CursorNeverDecreases ==
  [][ /\ ( IsDefined(lastHistoryId) /\ IsDefined(lastHistoryId') )
           => lastHistoryId'[1] >= lastHistoryId[1]
      /\ \A t \in Tasks :
           ( /\ task[t].op = "startMonitoring"
             /\ task'[t].op = "startMonitoring"
             /\ IsDefined(task[t].cursor)
             /\ IsDefined(task'[t].cursor) )
           => task'[t].cursor[1] >= task[t].cursor[1] ]_vars

(***************************************************************************)
(* Claims on the handlers of the push notifications                        *)
(***************************************************************************)
\* the tasks whose call of classifyEmail is between its first step and its
\* result
InPipeline ==
  { t \in Tasks : task[t].call.pc \in { "getEmail", "lookupFrom", "lookupTo",
                                        "model", "addLabels" } }

\* C21: at any moment at most one email is inside the pipeline of the
\* EmailClassifier instance, also when further notifications arrive while an
\* earlier one is still processed
C21_OneEmailInPipeline == Cardinality(InPipeline) <= 1

(***************************************************************************)
(* Claims on the waits of the poll loop                                    *)
(***************************************************************************)
\* the poll loop with its timers: a wait that has begun ends, as setTimeout
\* resolves the promise the loop awaits
SpecMonitorLive ==
  SpecMonitor /\ WF_vars(\E t \in Tasks : PollAgain(t))

Monitors == { t \in Tasks : task[t].op = "startMonitoring" }

\* C22: when the lookup of a poll iteration fails the loop waits twice the
\* poll interval, after a lookup that succeeds it waits the poll interval;
\* every wait is followed by the next poll; the loop never ends, and after a
\* failed lookup a further poll eventually happens
C22_BackoffThenPollAgain ==
  /\ [] ( /\ Monitors = { 0 }
          /\ \A t \in Monitors :
               task[t].pc = "wait" =>
                 task[t].delay = IF task[t].lookup = "threw" THEN 2 ELSE 1 )
  /\ [][ \A t \in Monitors :
           ( task[t].pc = "wait" /\ task'[t].pc # "wait" ) =>
             /\ task'[t].pc = "poll"
             /\ task'[t].polls = task[t].polls + 1 ]_vars
  /\ \A n \in 1..(MaxPolls - 1) :
       ( task[0].pc = "wait" /\ task[0].lookup = "threw" /\ task[0].polls = n )
         ~> ( task[0].pc = "poll" /\ task[0].polls = n + 1 )

\* C22, witness: the first lookup failed, the loop waited twice the interval
\* and polls again
C22_PollAfterFailedLookup ==
  /\ task[0].op = "startMonitoring"
  /\ task[0].pc = "poll"
  /\ task[0].polls = 2
  /\ task[0].lookup = "threw"

(***************************************************************************)
(* Claims on the relationship analysis                                     *)
(***************************************************************************)
\* C23: checkEmailHistory issues its two lookups concurrently: the lookup of
\* the emails sent to the sender is issued while the lookup of the emails
\* received from the sender is pending, and so also when the first one fails:
\* every history check that has ended has issued, and seen the end of, both
\* lookups
C23_BothLookupsIssued ==
  \A t \in Tasks :
    IsDefined(task[t].call.analysis) => Len(task[t].call.lookups) = 2

\* C24, as stated: the thread flags follow the presence of the headers,
\* whatever their value: isReply iff in-reply-to or references is present,
\* isAutoSubmitted iff auto-submitted is present, hasUnsubscribe iff
\* list-unsubscribe is present; isBulk iff precedence is exactly "bulk"
C24_FlagsFollowPresence ==
  \A t \in Analysed :
    LET email == task[t].call.email[1]
        flags == task[t].call.analysis[1].thread
    IN /\ flags.isReply <=> ( HeaderPresent(email, "in-reply-to")
                              \/ HeaderPresent(email, "references") )
       /\ flags.isAutoSubmitted <=> HeaderPresent(email, "auto-submitted")
       /\ flags.hasUnsubscribe <=> HeaderPresent(email, "list-unsubscribe")
       /\ flags.isBulk <=> email.headers["precedence"] = Some("bulk")

\* C24, amended: the flags follow the presence of the headers with a value
\* that is not empty; isBulk iff precedence is exactly "bulk"
C24_FlagsFollowNonEmptyValue ==
  \A t \in Analysed :
    LET email == task[t].call.email[1]
        flags == task[t].call.analysis[1].thread
    IN /\ flags.isReply <=> ( HeaderSet(email, "in-reply-to")
                              \/ HeaderSet(email, "references") )
       /\ flags.isAutoSubmitted <=> HeaderSet(email, "auto-submitted")
       /\ flags.hasUnsubscribe <=> HeaderSet(email, "list-unsubscribe")
       /\ flags.isBulk <=> email.headers["precedence"] = Some("bulk")

\* C24, witness: an email with the header Precedence: Bulk is analysed and
\* is not bulk
C24_CapitalBulkIsNotBulk ==
  \E t \in Analysed :
    /\ task[t].call.email[1].headers["precedence"] = Some("Bulk")
    /\ ~task[t].call.analysis[1].thread.isBulk

\* the calls whose email has a sender address without "@"
Malformed ==
  { t \in Tasks : /\ IsDefined(task[t].call.email)
                  /\ indexOfChar(task[t].call.email[1].from.address, "@") = 0 }

\* C25: for a sender address that is empty or has no "@" the relationship
\* analysis does not throw: the call has no failed result, the domain of the
\* analysis is empty (undefined), its local part is the whole address (empty
\* for the empty address), the three flags are those of that local part, and
\* the call goes on to its classification
C25_MalformedSenderIsAnalysed ==
  \A t \in Malformed :
    LET call    == task[t].call
        address == call.email[1].from.address
    IN /\ ~IsDefined(call.result)
       /\ call.pc \in { "lookupFrom", "lookupTo", "model", "addLabels" }
       /\ call.pc \in { "model", "addLabels" } =>
            /\ IsDefined(call.analysis)
            /\ call.analysis[1].domain.domain = Undefined
            /\ call.analysis[1].domain.localPart = toLowerCase(address)
            /\ call.analysis[1].domain.isNoReply = noreplyPattern(toLowerCase(address))
            /\ call.analysis[1].domain.isAutomated = automatedPattern(toLowerCase(address))
            /\ call.analysis[1].domain.isMarketing = marketingPattern(toLowerCase(address))
       /\ call.pc = "addLabels" =>
            /\ IsDefined(call.classification)
            /\ IsDefined(call.classification[1].labelId)

\* C25, witness: the sender "support" has no "@"; the analysis has the local
\* part "support", the automated flag, and the call has its classification
C25_SupportWithoutDomain ==
  \E t \in Malformed :
    /\ task[t].call.email[1].from.address = "support"
    /\ task[t].call.pc = "addLabels"
    /\ task[t].call.analysis[1].domain.localPart = "support"
    /\ task[t].call.analysis[1].domain.isAutomated
    /\ IsDefined(task[t].call.classification)

(***************************************************************************)
(* Claims on processHistoryChanges                                         *)
(***************************************************************************)
\* the message ids that the loop over the history changes of handler t has
\* submitted to classifyEmail so far
SubmittedFromHistory(t) ==
  IF task[t].op = "processHistoryChanges" /\ task[t].pc = "loop"
    THEN { task[t].results[j].messageId : j \in 1..Len(task[t].results) }
         \cup ( IF task[t].call.pc # "none" THEN { task[t].call.messageId }
                ELSE { } )
    ELSE { }

\* C26: in push mode a message id that the mailbox history reports as added
\* is submitted to classifyEmail at most once: no two calls of
\* processHistoryChanges in progress have submitted the same id, and no
\* call submits an id twice
C26_AddedMessageSubmittedOnce ==
  /\ \A t1, t2 \in Handlers :
       t1 # t2 => SubmittedFromHistory(t1) \cap SubmittedFromHistory(t2) = { }
  /\ \A t \in Handlers :
       \A j, k \in 1..Len(task[t].results) :
         task[t].results[j].messageId = task[t].results[k].messageId => j = k

\* C27: processHistoryChanges never throws, and it leaves the stored cursor
\* as it is when it does not process: a call that ends at its lookup (the
\* lookup failed, or the history has no changes) returns and does not touch
\* lastHistoryId; lastHistoryId is set, to the historyId of the
\* notification, only by the step that ends a call whose loop is complete
C27_CursorSetAtEndOfLoopOnly ==
  [][ /\ lastHistoryId' # lastHistoryId =>
           \E t \in Handlers :
             /\ task[t].op = "processHistoryChanges"
             /\ task[t].pc \in { "processEmails", "loop" }
             /\ task[t].i = Len(task[t].ids)
             /\ task[t].call.pc = "none"
             /\ task'[t] = IdleTask
             /\ lastHistoryId' = task[t].historyId
      /\ \A t \in Handlers :
           ( /\ task[t].op = "processHistoryChanges"
             /\ task[t].pc \in { "searchEmails", "getHistory" }
             /\ task'[t] # task[t] ) =>
             /\ lastHistoryId' = lastHistoryId
             /\ \/ task'[t] = IdleTask
                \/ /\ task'[t].pc \in { "processEmails", "loop" }
                   /\ task'[t].i = 0 ]_vars

\* C27, witness: a notification was delivered for a mailbox without changes,
\* its call has ended, and the stored cursor is the one of the watch
C27_EndedWithoutProcessing ==
  /\ delivered = 1
  /\ inbox = << >>
  /\ \A t \in Handlers : task[t] = IdleTask
  /\ lastHistoryId = Some(BaseHistoryId)

(***************************************************************************)
(* GmailClient.getEmail(messageId, retries) on its own: the errors of the  *)
(* request range over codes and statuses, the parameter retries over       *)
(* 1..MaxRetries.                                                          *)
(***************************************************************************)
\* the largest value of the parameter retries
MaxRetries == 6

FetchFaults ==
  { Fault(Some(c), Undefined) : c \in { "ECONNRESET", "ENOTFOUND", "ETIMEDOUT", "EACCES" } }
  \cup { Fault(Undefined, Some(n)) : n \in { 404, 499, 500, 503, 599, 600 } }

InitFetch ==
  \E retries \in 1..MaxRetries, messageId \in { "m1", UnknownId } :
    /\ inbox = << Message(1) >>
    /\ modified = << >>
    /\ answers = PipelineAnswers
    /\ priors = { 0 }
    /\ faults = FetchFaults
    /\ lastHistoryId = Undefined
    /\ delivered = 0
    /\ task = [ t \in Tasks |->
         IF t = 0
           THEN [ IdleTask EXCEPT !.op = "classifyEmail", !.pc = "call",
                                  !.ids = << messageId >>,
                                  !.call = [ beginCall(messageId) EXCEPT
                                               !.retries = retries ] ]
           ELSE IdleTask ]

NextFetch ==
  \E t \in Tasks :
    \/ GetEmailReturns(t)
    \/ GetEmailRetries(t)
    \/ GetEmailThrows(t)

SpecFetch == InitFetch /\ [][NextFetch]_vars

\* the errors the claim calls network-type
NetworkType(error) ==
  \/ error.code \in { Some("ECONNRESET"), Some("ENOTFOUND"), Some("ETIMEDOUT") }
  \/ \E n \in 500..599 : error.status = Some(n)

\* the wait in ms after the failed attempt number i
WaitAfter(i) ==
  CASE i = 1 -> 1000 [] i = 2 -> 2000 [] i = 3 -> 4000 [] i = 4 -> 8000
    [] OTHER -> 10000

\* the calls that are in, or past, their getEmail
Fetching == { t \in Tasks : task[t].call.pc # "none" }

\* C28: getEmail ends after at most retries attempts; a further attempt is
\* made only after a network-type error and only while attempt < retries,
\* after a wait of min(1000 * 2^(attempt-1), 10000) ms; any other error, and
\* an error of the last attempt, is thrown at once; an attempt that succeeds
\* returns the parsed email and no further attempt is made
C28_BoundedRetriesWithBackoff ==
  /\ [] \A t \in Fetching :
          LET call == task[t].call IN
          /\ call.attempt >= 1 /\ call.attempt <= call.retries
          /\ Len(call.waits) = call.attempt - 1
          /\ \A i \in 1..Len(call.waits) : call.waits[i] = WaitAfter(i)
          /\ ( call.pc = "getEmail" /\ call.attempt > 1 ) =>
               IsDefined(call.error) /\ NetworkType(call.error[1])
          /\ ( call.pc = "return" /\ ~IsDefined(call.email) ) =>
               /\ IsDefined(call.error)
               /\ ~NetworkType(call.error[1]) \/ call.attempt = call.retries
               /\ ~call.result[1].success
          /\ IsDefined(call.email) =>
               /\ call.pc = "lookupFrom"
               /\ IsDefined(rawMessage(call.messageId))
               /\ call.email[1] = parseEmailData(rawMessage(call.messageId)[1])
  /\ [][ \A t \in Fetching :
           /\ task'[t].call.attempt # task[t].call.attempt =>
                /\ task[t].call.pc = "getEmail" /\ task'[t].call.pc = "getEmail"
                /\ task'[t].call.attempt = task[t].call.attempt + 1
                /\ NetworkType(task'[t].call.error[1])
           /\ task[t].call.pc # "getEmail" => task'[t].call = task[t].call ]_vars

\* C28, witness: a call with retries = 6 that succeeded at its sixth
\* attempt, after waits that reached the cap of 10000 ms
C28_SucceededAtSixthAttempt ==
  \E t \in Fetching :
    /\ task[t].call.retries = 6
    /\ task[t].call.attempt = 6
    /\ task[t].call.waits = << 1000, 2000, 4000, 8000, 10000 >>
    /\ IsDefined(task[t].call.email)

(***************************************************************************)
(* Claims on the list of hints (under SpecAnalyse)                         *)
(***************************************************************************)
\* the names of the hints of the analysis of call t, as a list and as a set
HintList(t) == hintNames(task[t].call.analysis[1].classification_hints)
HintSet(t) == { HintList(t)[i] : i \in 1..Len(HintList(t)) }

\* C29: every list of hints has 1 to 5 entries; its first entry is
\* COLD_EMAIL or KNOWN_CONTACT and the list never has both; LIKELY_MARKETING
\* occurs only with COLD_EMAIL and ONGOING_CONVERSATION only with
\* KNOWN_CONTACT; no hint occurs twice
C29_HintListIsWellFormed ==
  \A t \in Analysed :
    /\ Len(HintList(t)) >= 1 /\ Len(HintList(t)) <= 5
    /\ HintList(t)[1] \in { "COLD_EMAIL", "KNOWN_CONTACT" }
    /\ ~( "COLD_EMAIL" \in HintSet(t) /\ "KNOWN_CONTACT" \in HintSet(t) )
    /\ "LIKELY_MARKETING" \in HintSet(t) => "COLD_EMAIL" \in HintSet(t)
    /\ "ONGOING_CONVERSATION" \in HintSet(t) => "KNOWN_CONTACT" \in HintSet(t)
    /\ \A i, j \in 1..Len(HintList(t)) : HintList(t)[i] = HintList(t)[j] => i = j
    /\ Len(task[t].call.analysis[1].classification_hints) = Len(HintList(t))

\* C29, witness: the automated bulk reply of a no-reply sender with history
\* has all of the 5 hints a list can have
C29_FiveHints ==
  \E t \in Analysed :
    HintList(t) = << "KNOWN_CONTACT", "ONGOING_CONVERSATION", "AUTOMATED",
                     "BULK_EMAIL", "NOTIFICATION_TYPE" >>

(***************************************************************************)
(* TestRunner.validateSetup                                                *)
(***************************************************************************)
requiredEnvVars ==
  << "OPENAI_API_KEY", "GMAIL_CLIENT_ID", "GMAIL_CLIENT_SECRET",
     "GMAIL_REFRESH_TOKEN" >>

\* requiredEnvVars.forEach: one issue for every variable that is not set
RECURSIVE missingVariables(_, _)
missingVariables(names, env) ==
  IF names = << >> THEN << >>
  ELSE ( IF names[1] \in env THEN << >>
         ELSE << "Missing environment variable: " \o names[1] >> )
       \o missingVariables(Tail(names), env)

\* the email and the analysis of the connection check; the properties the
\* code leaves out are undefined, and false where they are read as a flag
testEmail ==
  [ id |-> "test", threadId |-> "", labelIds |-> { }, subject |-> "Test email",
    from |-> [ name |-> "Test", address |-> "test@example.com" ],
    headers |-> [ h \in HeaderNames |-> Undefined ],
    text |-> "This is a test email" ]

testAnalysis ==
  [ history |-> [ hasHistory |-> FALSE, summary |-> "No history" ],
    thread  |-> [ isReply |-> FALSE, context |-> << "Test context" >> ],
    domain  |-> [ domain |-> Some("example.com"), isNoReply |-> FALSE ],
    classification_hints |-> << >> ]

InitValidate ==
  \E env \in SUBSET { requiredEnvVars[i] : i \in 1..Len(requiredEnvVars) } :
    /\ inbox = << Message(1) >>
    /\ modified = << >>
    /\ answers = PipelineAnswers
    /\ priors = { 0 }
    /\ faults = UsualFaults
    /\ lastHistoryId = Undefined
    /\ delivered = 0
    /\ task = [ t \in Tasks |->
         IF t = 0
           THEN [ IdleTask EXCEPT !.op = "validateSetup", !.pc = "env",
                                  !.env = env ]
           ELSE IdleTask ]

\* the check of the environment, up to the await of the Gmail check
ValidateChecksEnv(t) ==
  /\ task[t].op = "validateSetup"
  /\ task[t].pc = "env"
  /\ task' = [ task EXCEPT
                 ![t].issues = missingVariables(requiredEnvVars, task[t].env),
                 ![t].pc = "gmail" ]
  /\ UNCHANGED << inbox, modified, answers, priors, faults, lastHistoryId, delivered >>

\* searchEmails('in:inbox', 1) returned
ValidateGmailReturns(t) ==
  /\ task[t].op = "validateSetup"
  /\ task[t].pc = "gmail"
  /\ task' = [ task EXCEPT ![t].pc = "openai" ]
  /\ UNCHANGED << inbox, modified, answers, priors, faults, lastHistoryId, delivered >>

\* searchEmails('in:inbox', 1) threw
ValidateGmailThrows(t) ==
  /\ task[t].op = "validateSetup"
  /\ task[t].pc = "gmail"
  /\ task' = [ task EXCEPT
                 ![t].issues = Append(@, "Gmail API connection failed: search failed"),
                 ![t].pc = "openai" ]
  /\ UNCHANGED << inbox, modified, answers, priors, faults, lastHistoryId, delivered >>

\* openaiClassifier.classifyEmail(testEmail, testAnalysis) returned, whatever
\* its request did (it has its own catch, so the catch of validateSetup is
\* not entered), and validateSetup returns issues.length === 0
ValidateModelCheck(t, outcome) ==
  /\ task[t].op = "validateSetup"
  /\ task[t].pc = "openai"
  /\ task' = [ task EXCEPT
                 ![t].call.outcome = Some(outcome),
                 ![t].call.classification =
                   Some(OpenAIClassifier_classifyEmail(testEmail, testAnalysis, outcome)),
                 ![t].returned = Some(Len(task[t].issues) = 0),
                 ![t].pc = "done" ]
  /\ UNCHANGED << inbox, modified, answers, priors, faults, lastHistoryId, delivered >>

NextValidate ==
  \E t \in Tasks :
    \/ ValidateChecksEnv(t)
    \/ ValidateGmailReturns(t)
    \/ ValidateGmailThrows(t)
    \/ ValidateModelCheck(t, ModelThrows)
    \/ \E content \in answers : ValidateModelCheck(t, ModelReturns(content))

SpecValidate == InitValidate /\ [][NextValidate]_vars

\* the calls of validateSetup that have returned
Validated == { t \in Tasks : task[t].op = "validateSetup" /\ task[t].pc = "done" }

\* C30: validateSetup returns true only if the request to the model of its
\* connection check succeeded: when the request fails, the issues have an
\* entry "OpenAI connection failed" and validateSetup returns false
C30_FailedModelCallIsReported ==
  \A t \in Validated :
    task[t].call.outcome[1].throws =>
      /\ \E i \in 1..Len(task[t].issues) :
           includes(task[t].issues[i], "OpenAI connection failed")
      /\ task[t].returned = Some(FALSE)

=============================================================================
